---------------------------- MODULE Spec2Model ----------------------------
(***************************************************************************)
(* A model of three parts of QLever: the Vocabulary with its               *)
(* StringSortComparator (src/index/Vocabulary.h), prefix expansion of the  *)
(* ParsedQuery (src/parser/ParsedQuery.cpp) and the TransitivePath         *)
(* operation (src/engine/TransitivePath.h).                                *)
(*                                                                         *)
(* Strings are sequences of byte values, ids are 0-based as in the code    *)
(* (the word with id i is _words[i + 1]).                                  *)
(***************************************************************************)
EXTENDS Integers, Sequences, FiniteSets, TLC

VARIABLES
  \* ---- StringSortComparator calls
  cmpIgnoreCase,        \* StringSortComparator::_ignoreCase of the comparator under test
  cmpA, cmpB, cmpC,     \* the strings handed to operator()
  cmpOut,               \* results of the calls made on them
  sortIn, sortOut,      \* std::sort of a set of terms with the comparator
  \* ---- Vocabulary<string>
  _words,               \* Vocabulary::_words
  _externalLiterals,    \* Vocabulary::_externalLiterals (the words of the external store)
  _ignoreCase,          \* _caseComparator._ignoreCase
  inOrder,              \* history: every push_back so far appended in collation order
  lookup,               \* the last lookup call and what it returned
  \* ---- TransitivePath::computeTransitivePath[Left|Right]Bound
  sub,                  \* the rows of the sub-result, (column 0, column 1)
  leftSubCol, rightSubCol,
  minDist, maxDist,
  side,                 \* which side is bound by a table: "none", "left", "right"
  sideCol,              \* the ids in the bound table's column
  tpc,                  \* where the computation is
  todo,                 \* seeds still to be expanded
  seed, depth, frontier,
  marks,                \* the targets visited for the current seed
  res,                  \* the rows of the result, (left, right)
  resRows,              \* the number of rows appended to the result
  \* ---- TransitivePath::bindLeftSide / bindRightSide
  ops,                  \* the TransitivePath operations created so far
  bindOut,              \* the last bind call and how it ended
  \* ---- ParsedQuery::expandPrefix
  _prefixes,            \* ParsedQuery::_prefixes, the declared prefixes
  item0,                \* the term before the call
  item,                 \* the term, expanded in place
  expandOut,            \* whether the call was made and whether it threw
  \* ---- ParsedQuery::expandPrefixes, GraphPattern::recomputeIds
  queries,              \* the ParsedQuery objects: _prefixes, _rootGraphPattern
  patterns,             \* the GraphPattern objects: _children, _whereClauseTriples, _filters, _id
  queries0, patterns0,  \* both before the call
  frames,               \* the calls of expandPrefixes in progress, innermost last
  epc,                  \* where expandPrefixes is: "idle", "running", "done", "raised", "crashed"
  visits,               \* history: how often the triples of each pattern were expanded
  \* ---- ParsedQuery::parseAliases, parseAlias
  _selectedVariables,   \* ParsedQuery::_selectedVariables
  _orderBy,             \* ParsedQuery::_orderBy: _key, _desc
  _aliases,             \* ParsedQuery::_aliases
  selected0, orderBy0,  \* both before parseAliases
  paI, paJ,             \* the loop indices of parseAliases, from 1
  paRaised,             \* ParseException has ended parseAliases
  lastAlias,            \* the last call of parseAlias and how it ended
  \* ---- ParsedQuery::GraphPattern::recomputeIds
  ridFrames,            \* the calls of recomputeIds in progress: pattern, loop positions
  id_count,             \* the counter the calls share
  ridc,                 \* "idle", "running", "done"
  ridRoot,              \* history: the pattern recomputeIds() was called on
  \* ---- PropertyPath::computeCanBeNull
  path,                 \* the PropertyPath
  path0,                \* history: the path before the call
  pathc,                \* "idle", "done"
  \* ---- Vocabulary::getIdRangeForFullTextPrefix
  range,                \* the last call: the word, what was returned, the IdRange
  \* ---- Vocabulary::operator[], idToOptionalString
  optOut                \* the last call: the id and the optional returned

cmpVars == <<cmpIgnoreCase, cmpA, cmpB, cmpC, cmpOut, sortIn, sortOut>>
vocabVars == <<_words, _externalLiterals, _ignoreCase, inOrder, lookup>>
tpVars == <<sub, leftSubCol, rightSubCol, minDist, maxDist, side, sideCol,
            tpc, todo, seed, depth, frontier, marks, res, resRows>>
bindVars == <<ops, bindOut>>
expandVars == <<_prefixes, item0, item, expandOut>>
queryVars == <<queries, patterns, queries0, patterns0, frames, epc, visits>>
aliasVars == <<_selectedVariables, _orderBy, _aliases, selected0, orderBy0, paI, paJ,
               paRaised, lastAlias>>
idVars == <<ridFrames, id_count, ridc, ridRoot>>
nullVars == <<path, path0, pathc>>
parserVars == <<queryVars, aliasVars, idVars, nullVars>>
rangeVars == <<range, optOut>>
vars == <<cmpVars, vocabVars, tpVars, bindVars, expandVars, parserVars, rangeVars>>

-----------------------------------------------------------------------------
(* Bytes and strings *)

\* The printable ASCII characters in code order, starting at the space (32);
\* the grave accent (96) is spelled out.
Printable ==
  << " ", "!", "\"", "#", "$", "%", "&", "'", "(", ")", "*", "+", ",", "-", ".", "/",
     "0", "1", "2", "3", "4", "5", "6", "7", "8", "9", ":", ";", "<", "=", ">", "?",
     "@", "A", "B", "C", "D", "E", "F", "G", "H", "I", "J", "K", "L", "M", "N", "O",
     "P", "Q", "R", "S", "T", "U", "V", "W", "X", "Y", "Z", "[", "\\", "]", "^", "_",
     "grave", "a", "b", "c", "d", "e", "f", "g", "h", "i", "j", "k", "l", "m", "n", "o",
     "p", "q", "r", "s", "t", "u", "v", "w", "x", "y", "z", "{", "|", "}", "~" >>

\* The byte value of a character.
Ord(c) == 31 + (CHOOSE i \in 1..Len(Printable) : Printable[i] = c)

\* A string literal: the sequence of the byte values of its characters.
Str(cs) == [i \in 1..Len(cs) |-> Ord(cs[i])]

npos == -1

\* std::string::substr(pos) and substr(pos, n), 0-based, clamped at the end.
substrFrom(s, pos) == SubSeq(s, pos + 1, Len(s))
substr(s, pos, n) ==
  SubSeq(s, pos + 1, IF pos + n > Len(s) THEN Len(s) ELSE pos + n)

\* std::string::find(pattern, from): the first 0-based position >= from at
\* which pattern occurs, or npos.
find(s, pat, from) ==
  LET hits == {p \in from..(Len(s) - Len(pat)) :
                 SubSeq(s, p + 1, p + Len(pat)) = pat}
  IN IF hits = {} THEN npos ELSE CHOOSE p \in hits : \A q \in hits : p <= q

startsWith(s, prefix) ==
  /\ Len(prefix) <= Len(s)
  /\ SubSeq(s, 1, Len(prefix)) = prefix

\* std::mismatch on two ranges: the number of leading positions that agree.
mismatch(a, b) ==
  LET m == IF Len(a) < Len(b) THEN Len(a) ELSE Len(b)
      diff == {k \in 1..m : a[k] # b[k]}
  IN IF diff = {} THEN m ELSE (CHOOSE k \in diff : \A j \in diff : k <= j) - 1

\* operator< of std::string_view: byte-wise lexicographic order.
strLess(a, b) ==
  LET k == mismatch(a, b)
  IN IF k = Len(b) THEN FALSE
     ELSE IF k = Len(a) THEN TRUE
     ELSE a[k + 1] < b[k + 1]

\* ad_utility::getLowercaseUtf8 on ASCII: A..Z become a..z.
getLowercaseUtf8(s) ==
  [i \in 1..Len(s) |->
     IF s[i] >= Ord("A") /\ s[i] <= Ord("Z") THEN s[i] + (Ord("a") - Ord("A")) ELSE s[i]]

\* ad_utility::findLiteralEnd: the position of the closing quotation mark.
findLiteralEnd(s, quote) == find(s, quote, 0)

-----------------------------------------------------------------------------
(* StringSortComparator *)

\* StringSortComparator::extractComparable
extractComparable(a) ==
  IF startsWith(a, Str(<<"\"">>))
    THEN LET inner == substrFrom(a, 1)
             endPos == findLiteralEnd(inner, Str(<<"\"">>))
         IN IF endPos # npos
              THEN [isLiteral |-> TRUE,
                    val |-> substr(inner, 0, endPos),
                    langtag |-> substrFrom(inner, endPos + 1)]
              ELSE [isLiteral |-> TRUE, val |-> inner, langtag |-> <<>>]
    ELSE [isLiteral |-> FALSE, val |-> a, langtag |-> <<>>]

\* A plausible slip: on equal lowercase values the original values decide
\* before the language tags.
caseInsensitiveCompareValFirst(a, b) ==
  LET aLower == getLowercaseUtf8(a.val)
      bLower == getLowercaseUtf8(b.val)
      k == mismatch(aLower, bLower)
  IN IF k = Len(bLower)
       THEN IF k = Len(aLower)
              THEN IF a.val # b.val THEN strLess(a.val, b.val)
                                    ELSE strLess(a.langtag, b.langtag)
              ELSE FALSE
       ELSE IF k = Len(aLower) THEN TRUE
       ELSE aLower[k + 1] < bLower[k + 1]

\* StringSortComparator::caseInsensitiveCompare
caseInsensitiveCompare(a, b) ==
  LET aLower == getLowercaseUtf8(a.val)
      bLower == getLowercaseUtf8(b.val)
      k == mismatch(aLower, bLower)
  IN IF k = Len(bLower)
       THEN IF k = Len(aLower)
              THEN IF a.langtag # b.langtag THEN strLess(a.langtag, b.langtag)
                                            ELSE strLess(a.val, b.val)
              ELSE FALSE
       ELSE IF k = Len(aLower) THEN TRUE
       ELSE aLower[k + 1] < bLower[k + 1]

\* StringSortComparator::operator()
StringSortComparator(ignoreCase, a, b) ==
  IF ~ignoreCase
    THEN strLess(a, b)
    ELSE LET splitA == extractComparable(a)
             splitB == extractComparable(b)
         IN IF splitA.isLiteral # splitB.isLiteral
              THEN strLess(a, b)
              ELSE caseInsensitiveCompare(splitA, splitB)

\* std::sort of a duplicate-free collection with the comparator: every
\* element is placed after the elements the comparator orders before it.
RECURSIVE sortWith(_, _)
sortWith(ignoreCase, S) ==
  IF S = {} THEN <<>>
  ELSE LET x == CHOOSE y \in S : \A z \in S : ~StringSortComparator(ignoreCase, z, y)
       IN <<x>> \o sortWith(ignoreCase, S \ {x})


-----------------------------------------------------------------------------
(* The terms the comparator and the vocabulary are exercised on *)

Apple     == Str(<<"\"", "A", "p", "p", "l", "e", "\"">>)
appleDe   == Str(<<"\"", "a", "p", "p", "l", "e", "\"", "@", "d", "e">>)
appleEn   == Str(<<"\"", "a", "p", "p", "l", "e", "\"", "@", "e", "n">>)
bananaEn  == Str(<<"\"", "b", "a", "n", "a", "n", "a", "\"", "@", "e", "n">>)
httpA     == Str(<<"<", "h", "t", "t", "p", ":", "/", "/", "a", ">">>)
httpB     == Str(<<"<", "h", "t", "t", "p", ":", "/", "/", "B", ">">>)
extX      == Str(<<"<", "x", "/", "1", ">">>)
appleOpen == Str(<<"\"", "a", "p", "p", "l", "e">>)
apple     == Str(<<"\"", "a", "p", "p", "l", "e", "\"">>)
AppleEn   == Str(<<"\"", "A", "p", "p", "l", "e", "\"", "@", "e", "n">>)
ant       == Str(<<"a", "n", "t">>)
bat       == Str(<<"b", "a", "t">>)
bee       == Str(<<"b", "e", "e">>)
Bee       == Str(<<"B", "e", "e">>)
cat       == Str(<<"c", "a", "t">>)
dog       == Str(<<"d", "o", "g">>)

\* The terms of scenario S4.
S4Terms == {bananaEn, Apple, httpA, appleDe, appleEn}

\* Strings handed to the comparator: literals with and without langtag, in
\* both cases, one without closing quotation mark, IRIs and plain words.
CmpTerms == S4Terms \cup {apple, appleOpen, AppleEn, httpB, ant, Bee, bee, <<>>}

-----------------------------------------------------------------------------
(* Calls of the comparator *)

\* The largest collection handed to std::sort.
MaxSort == 3

NoCmpOut == [done |-> FALSE, ab |-> FALSE, ba |-> FALSE, bc |-> FALSE,
             ac |-> FALSE, aa |-> FALSE]
NoSortOut == [done |-> FALSE, out |-> <<>>]

IdleCmp ==
  /\ cmpIgnoreCase = FALSE
  /\ cmpA = <<>> /\ cmpB = <<>> /\ cmpC = <<>>
  /\ cmpOut = NoCmpOut
  /\ sortIn = {} /\ sortOut = NoSortOut

\* operator() on every ordered pair of the three strings.
Compare ==
  /\ ~cmpOut.done
  /\ cmpOut' = [done |-> TRUE,
                ab |-> StringSortComparator(cmpIgnoreCase, cmpA, cmpB),
                ba |-> StringSortComparator(cmpIgnoreCase, cmpB, cmpA),
                bc |-> StringSortComparator(cmpIgnoreCase, cmpB, cmpC),
                ac |-> StringSortComparator(cmpIgnoreCase, cmpA, cmpC),
                aa |-> StringSortComparator(cmpIgnoreCase, cmpA, cmpA)]
  /\ UNCHANGED <<cmpIgnoreCase, cmpA, cmpB, cmpC, sortIn, sortOut>>

\* std::sort of the collection with the comparator.
SortTerms ==
  /\ ~sortOut.done
  /\ sortIn # {}
  /\ sortOut' = [done |-> TRUE, out |-> sortWith(cmpIgnoreCase, sortIn)]
  /\ UNCHANGED <<cmpIgnoreCase, cmpA, cmpB, cmpC, cmpOut, sortIn>>

-----------------------------------------------------------------------------
(* Vocabulary<string> *)

\* Words of the internal vocabulary, and words that are looked up.
StoredTerms == {ant, Bee, bee, cat, dog, Apple, appleEn, httpA}
LookupWords == StoredTerms \cup {bat, httpB, appleDe, extX}

\* Vocabulary::_externalizedPrefixes and Vocabulary::_internalizedLangs
_externalizedPrefixes == {Str(<<"<", "x", "/">>)}
_internalizedLangs == {Str(<<"e", "n">>)}

\* Words of the external store.
ExternalTerms == {appleDe, extX}

\* The largest internal vocabulary looked into, and the largest one built.
MaxWords == 4
MaxPush == 3

\* Vocabulary::size
size == Len(_words)

\* Vocabulary::at for the uncompressed vocabulary
at(id) == _words[id + 1]

\* std::lower_bound on words[first + 1 .. first + len] with the comparator:
\* bisection, as the standard library does it.
RECURSIVE lowerBoundIn(_, _, _, _, _)
lowerBoundIn(words, ignoreCase, word, first, len) ==
  IF len <= 0 THEN first
  ELSE LET half == len \div 2
           middle == first + half
       IN IF StringSortComparator(ignoreCase, words[middle + 1], word)
            THEN lowerBoundIn(words, ignoreCase, word, middle + 1, len - half - 1)
            ELSE lowerBoundIn(words, ignoreCase, word, first, half)

\* Vocabulary::lower_bound(word)
lower_bound(word) == lowerBoundIn(_words, _ignoreCase, word, 0, Len(_words))

\* Vocabulary::getLanguage: the language tag of a literal, without the '@'.
getLanguage(literal) ==
  LET split == extractComparable(literal)
  IN IF split.isLiteral /\ startsWith(split.langtag, Str(<<"@">>))
       THEN substrFrom(split.langtag, 1)
       ELSE <<>>

\* Vocabulary::shouldBeExternalized: the word begins with an externalize
\* prefix, or it is a literal with a language tag that is not internalized.
shouldBeExternalized(word) ==
  IF extractComparable(word).isLiteral
    THEN getLanguage(word) # <<>> /\ getLanguage(word) \notin _internalizedLangs
    ELSE \E p \in _externalizedPrefixes : startsWith(word, p)

\* ExternalVocabulary::getId: the position of the word in the external store.
externalGetId(word) ==
  LET id == lowerBoundIn(_externalLiterals, FALSE, word, 0, Len(_externalLiterals))
  IN [found |-> id < Len(_externalLiterals) /\ _externalLiterals[id + 1] = word,
      id |-> id]

\* A plausible slip: the internal size is not added to an external id.
getIdNoOffset(word) ==
  IF ~shouldBeExternalized(word)
    THEN LET id == lower_bound(word)
         IN [found |-> id < size /\ at(id) = word, id |-> id]
    ELSE externalGetId(word)

\* Vocabulary::getId
getId(word) ==
  IF ~shouldBeExternalized(word)
    THEN LET id == lower_bound(word)
         IN [found |-> id < size /\ at(id) = word, id |-> id]
    ELSE LET ext == externalGetId(word)
         IN [found |-> ext.found, id |-> ext.id + size]

\* Vocabulary::getValueIdForLT
getValueIdForLT(indexWord) == lower_bound(indexWord)

\* A plausible slip: the decrement is not guarded by lb < size.
getValueIdForLEUnguarded(indexWord) ==
  LET lb == lower_bound(indexWord)
  IN IF lb > 0 /\ (lb >= size \/ at(lb) # indexWord) THEN lb - 1 ELSE lb

\* Vocabulary::getValueIdForLE
getValueIdForLE(indexWord) ==
  LET lb == lower_bound(indexWord)
  IN IF (lb < size /\ lb > 0) /\ at(lb) # indexWord THEN lb - 1 ELSE lb

\* Vocabulary::getValueIdForGT
getValueIdForGT(indexWord) ==
  LET lb == lower_bound(indexWord)
  IN IF (lb < size /\ lb > 0) /\ at(lb) # indexWord THEN lb - 1 ELSE lb

\* Vocabulary::getValueIdForGE
getValueIdForGE(indexWord) == lower_bound(indexWord)

NoLookup == [op |-> "none", word |-> <<>>, id |-> 0, found |-> FALSE]

IdleVocab ==
  /\ _words = <<>>
  /\ _externalLiterals = <<>>
  /\ _ignoreCase = FALSE
  /\ inOrder = TRUE
  /\ lookup = NoLookup

\* ---- the lookups of query time; none changes the vocabulary

DoGetId(word) ==
  /\ lookup = NoLookup
  /\ lookup' = [op |-> "getId", word |-> word,
                id |-> getId(word).id, found |-> getId(word).found]
  /\ UNCHANGED <<_words, _externalLiterals, _ignoreCase, inOrder>>

DoGetValueIdForLT(word) ==
  /\ lookup = NoLookup
  /\ lookup' = [op |-> "LT", word |-> word,
                id |-> getValueIdForLT(word), found |-> TRUE]
  /\ UNCHANGED <<_words, _externalLiterals, _ignoreCase, inOrder>>

DoGetValueIdForLE(word) ==
  /\ lookup = NoLookup
  /\ lookup' = [op |-> "LE", word |-> word,
                id |-> getValueIdForLE(word), found |-> TRUE]
  /\ UNCHANGED <<_words, _externalLiterals, _ignoreCase, inOrder>>

DoGetValueIdForGT(word) ==
  /\ lookup = NoLookup
  /\ lookup' = [op |-> "GT", word |-> word,
                id |-> getValueIdForGT(word), found |-> TRUE]
  /\ UNCHANGED <<_words, _externalLiterals, _ignoreCase, inOrder>>

DoGetValueIdForGE(word) ==
  /\ lookup = NoLookup
  /\ lookup' = [op |-> "GE", word |-> word,
                id |-> getValueIdForGE(word), found |-> TRUE]
  /\ UNCHANGED <<_words, _externalLiterals, _ignoreCase, inOrder>>

\* ---- building the vocabulary

\* Vocabulary::clear
clear ==
  /\ _words' = <<>>
  /\ _externalLiterals' = <<>>
  /\ inOrder' = TRUE
  /\ UNCHANGED <<_ignoreCase, lookup>>

\* A plausible slip: the word is inserted at the front.
push_backFront(word) ==
  /\ Len(_words) < MaxPush
  /\ _words' = <<word>> \o _words
  /\ inOrder' = (inOrder /\ (_words = <<>> \/
                   StringSortComparator(_ignoreCase, _words[Len(_words)], word)))
  /\ UNCHANGED <<_externalLiterals, _ignoreCase, lookup>>

\* Vocabulary::push_back for the uncompressed vocabulary.  inOrder records
\* whether the caller appended the word in collation order.
push_back(word) ==
  /\ Len(_words) < MaxPush
  /\ _words' = Append(_words, word)
  /\ inOrder' = (inOrder /\ (_words = <<>> \/
                   StringSortComparator(_ignoreCase, _words[Len(_words)], word)))
  /\ UNCHANGED <<_externalLiterals, _ignoreCase, lookup>>

\* Vocabulary::setCaseInsensitiveOrdering.  The words are not sorted again.
setCaseInsensitiveOrdering(ignoreCase) ==
  /\ _ignoreCase' = ignoreCase
  /\ inOrder' = (inOrder /\ (_words = <<>> \/ ignoreCase = _ignoreCase))
  /\ UNCHANGED <<_words, _externalLiterals, lookup>>

-----------------------------------------------------------------------------
(* TransitivePath: the computation of the paths *)

\* The ids in the generated sub-results, the number of their rows, and the
\* distances.
MaxNode == 3
MaxEdges == 3
MaxDist == 2

\* The columns of the bound tables: no row or one.
BoundColumns == {{}} \cup {{x} : x \in 1..MaxNode}

\* The maximal distance of an unbounded path: the largest value of the
\* integers at hand, as the code uses the largest size_t.
maxSizeT == 2^30 + (2^30 - 1)

\* The sub-result of scenario S6.
S6Sub == {<<1, 2>>, <<2, 3>>, <<3, 4>>, <<2, 5>>}

\* The steps of the graph: sub projected onto (leftSubCol, rightSubCol).
edges == {<<r[leftSubCol + 1], r[rightSubCol + 1]>> : r \in sub}

\* The steps as the expansion follows them: from the bound side, or from the
\* left when no side is bound.
steps == IF side = "right" THEN {<<e[2], e[1]>> : e \in edges} ELSE edges

image(S) == {e[2] : e \in {f \in steps : f[1] \in S}}

\* A result row for a seed and a target reached from it.
row(s, t) == IF side = "right" THEN <<t, s>> ELSE <<s, t>>

\* A plausible slip: without bound side only sources are seeds, also when the
\* empty path counts.
seedsSourcesOnly ==
  IF side = "none" THEN {e[1] : e \in edges} ELSE sideCol

\* The seeds: the ids of the bound table's column, or the sources of the
\* steps, with the targets when the empty path counts.
seeds ==
  IF side = "none"
    THEN {e[1] : e \in edges} \cup (IF minDist = 0 THEN {e[2] : e \in edges} ELSE {})
    ELSE sideCol

\* A plausible slip: the targets visited are not kept.
nextMarksNever(next) == marks

\* A plausible slip: every target reached is marked, also before minDist.
nextMarksAlways(next) == marks \cup next

\* The targets visited after a step: those of a step that emitted them.
nextMarks(next) == IF depth + 1 >= minDist THEN marks \cup next ELSE marks

IdleTP ==
  /\ sub = {} /\ leftSubCol = 0 /\ rightSubCol = 1
  /\ minDist = 0 /\ maxDist = 0
  /\ side = "none" /\ sideCol = {}
  /\ tpc = "idle" /\ todo = {} /\ seed = 0 /\ depth = 0
  /\ frontier = {} /\ marks = {} /\ res = {} /\ resRows = 0

tpInputs == <<sub, leftSubCol, rightSubCol, minDist, maxDist, side, sideCol>>

\* The seeds are collected.
TPStart ==
  /\ tpc = "start"
  /\ todo' = seeds
  /\ tpc' = "seed"
  /\ UNCHANGED <<tpInputs, seed, depth, frontier, marks, res, resRows>>

\* The next seed is taken up; it reaches itself by the empty path.
TPNextSeed ==
  /\ tpc = "seed" /\ todo # {}
  /\ LET n == CHOOSE x \in todo : \A y \in todo : x <= y
     IN /\ seed' = n
        /\ todo' = todo \ {n}
        /\ frontier' = {n}
        /\ depth' = 0
        /\ marks' = IF minDist = 0 THEN {n} ELSE {}
        /\ res' = IF minDist = 0 THEN res \cup {row(n, n)} ELSE res
        /\ resRows' = IF minDist = 0 THEN resRows + 1 ELSE resRows
  /\ tpc' = "expand"
  /\ UNCHANGED tpInputs

\* One step of the frontier: its image under the steps, without the targets
\* visited; from minDist on the targets are emitted and marked.
TPExpand ==
  /\ tpc = "expand" /\ frontier # {} /\ depth < maxDist
  /\ LET next == image(frontier) \ marks
     IN /\ frontier' = next
        /\ marks' = nextMarks(next)
        /\ res' = IF depth + 1 >= minDist
                    THEN res \cup {row(seed, t) : t \in next} ELSE res
        /\ resRows' = IF depth + 1 >= minDist
                        THEN resRows + Cardinality(next) ELSE resRows
  /\ depth' = depth + 1
  /\ UNCHANGED <<tpInputs, tpc, todo, seed>>

\* The frontier is empty or maxDist is reached: on to the next seed.
TPSeedDone ==
  /\ tpc = "expand" /\ (frontier = {} \/ depth >= maxDist)
  /\ tpc' = "seed"
  /\ UNCHANGED <<tpInputs, todo, seed, depth, frontier, marks, res, resRows>>

\* No seed is left.
TPFinish ==
  /\ tpc = "seed" /\ todo = {}
  /\ tpc' = "done"
  /\ UNCHANGED <<tpInputs, todo, seed, depth, frontier, marks, res, resRows>>

-----------------------------------------------------------------------------
(* TransitivePath: binding a side *)

\* The operations created in all, and the sub-plans a side is bound to.
MaxOps == 4
Trees == {"leftop", "rightop"}
nullptr == "nullptr"

\* A freshly constructed TransitivePath: no side is bound.  leftBinds and
\* rightBinds count how often each side was bound on the way to it.
freshOp == [_leftSideTree |-> nullptr, _rightSideTree |-> nullptr,
            leftBinds |-> 0, rightBinds |-> 0]

\* TransitivePath::isBound
isBound(op) == op._leftSideTree # nullptr \/ op._rightSideTree # nullptr

NoBindOut == [call |-> "none", on |-> 0, raised |-> FALSE, new |-> 0]

IdleBind == ops = <<freshOp>> /\ bindOut = NoBindOut

\* A plausible slip: the side is bound without looking at isBound.
bindLeftSideUnchecked(i, leftop) ==
  /\ Len(ops) < MaxOps
  /\ ops' = Append(ops, [ops[i] EXCEPT !._leftSideTree = leftop,
                                       !.leftBinds = @ + 1])
  /\ bindOut' = [call |-> "bindLeftSide", on |-> i, raised |-> FALSE,
                 new |-> Len(ops) + 1]

\* TransitivePath::bindLeftSide on operation i: a copy with the left side
\* bound, or a plan-shape error when a side is bound already.
bindLeftSide(i, leftop) ==
  /\ Len(ops) < MaxOps
  /\ IF isBound(ops[i])
       THEN /\ bindOut' = [call |-> "bindLeftSide", on |-> i, raised |-> TRUE,
                           new |-> 0]
            /\ ops' = ops
       ELSE /\ ops' = Append(ops, [ops[i] EXCEPT !._leftSideTree = leftop,
                                                 !.leftBinds = @ + 1])
            /\ bindOut' = [call |-> "bindLeftSide", on |-> i, raised |-> FALSE,
                           new |-> Len(ops) + 1]

\* TransitivePath::bindRightSide on operation i.
bindRightSide(i, rightop) ==
  /\ Len(ops) < MaxOps
  /\ IF isBound(ops[i])
       THEN /\ bindOut' = [call |-> "bindRightSide", on |-> i, raised |-> TRUE,
                           new |-> 0]
            /\ ops' = ops
       ELSE /\ ops' = Append(ops, [ops[i] EXCEPT !._rightSideTree = rightop,
                                                 !.rightBinds = @ + 1])
            /\ bindOut' = [call |-> "bindRightSide", on |-> i, raised |-> FALSE,
                           new |-> Len(ops) + 1]

-----------------------------------------------------------------------------
(* ParsedQuery: expansion of the prefix of a term *)

foaf     == Str(<<"f", "o", "a", "f">>)
rdfs     == Str(<<"r", "d", "f", "s">>)
ql       == Str(<<"q", "l">>)
xsd      == Str(<<"x", "s", "d">>)
foafUri  == Str(<<"<", "h", "t", "t", "p", ":", "/", "/", "x", "m", "l", "n", "s", ".", "c", "o", "m", "/", "f", "o", "a", "f", "/", "0", ".", "1", "/", ">">>)
rdfsUri  == Str(<<"<", "h", "t", "t", "p", ":", "/", "/", "w", "w", "w", ".", "w", "3", ".", "o", "r", "g", "/", "2", "0", "0", "0", "/", "0", "1", "/", "r", "d", "f", "-", "s", "c", "h", "e", "m", "a", "#", ">">>)
otherUri == Str(<<"<", "h", "t", "t", "p", ":", "/", "/", "o", "/", ">">>)
qlUri    == Str(<<"<", "Q", "L", "e", "v", "e", "r", "-", "i", "n", "t", "e", "r", "n", "a", "l", "-", "f", "u", "n", "c", "t", "i", "o", "n", "/", ">">>)

\* ParsedQuery::expandPrefixes, the prefix map: ql, then the declared
\* prefixes in their order, a later one replacing an earlier one.
RECURSIVE prefixMapFrom(_, _)
prefixMapFrom(map, prefixes) ==
  IF prefixes = <<>> THEN map
  ELSE LET p == Head(prefixes)
       IN prefixMapFrom([k \in DOMAIN map \cup {p._prefix} |->
                           IF k = p._prefix THEN p._uri ELSE map[k]],
                        Tail(prefixes))
\* A plausible slip: the entry of ql is set after the declared prefixes.
prefixMapQlLast ==
  [k \in {p._prefix : p \in {_prefixes[j] : j \in 1..Len(_prefixes)}} \cup {ql} |->
     IF k = ql THEN qlUri ELSE prefixMapFrom([j \in {ql} |-> qlUri], _prefixes)[k]]

prefixMap == prefixMapFrom([k \in {ql} |-> qlUri], _prefixes)

\* ad_utility::convertToLanguageTaggedPredicate
convertToLanguageTaggedPredicate(pred, langtag) ==
  Str(<<"@">>) \o langtag \o Str(<<"@">>) \o pred

\* A plausible slip: the closing '>' of the prefix IRI is not cut off.
expandAfterLangtagKeepBracket(it, map) ==
  LET i == find(it, Str(<<":">>), 0)
      marker == find(it, Str(<<"^", "^">>), 0)
      from == IF marker = npos THEN 0 ELSE marker + 2
  IN IF i # npos /\ i >= from /\ substr(it, from, i - from) \in DOMAIN map
       THEN LET prefixUri == map[substr(it, from, i - from)]
            IN IF from = 0
                 THEN prefixUri \o substrFrom(it, i + 1) \o Str(<<">">>)
                 ELSE substr(it, 0, from) \o prefixUri
                        \o substrFrom(it, i + 1) \o Str(<<">">>)
       ELSE it

\* ParsedQuery::expandPrefix(string&, prefixMap), behind the language tag:
\* the prefix before the first ':' is replaced when it is in the map.
expandAfterLangtag(it, map) ==
  LET i == find(it, Str(<<":">>), 0)
      marker == find(it, Str(<<"^", "^">>), 0)
      from == IF marker = npos THEN 0 ELSE marker + 2
  IN IF i # npos /\ i >= from /\ substr(it, from, i - from) \in DOMAIN map
       THEN LET prefixUri == map[substr(it, from, i - from)]
            IN IF from = 0
                 THEN substr(prefixUri, 0, Len(prefixUri) - 1) \o substrFrom(it, i + 1)
                        \o Str(<<">">>)
                 ELSE substr(it, 0, from) \o substr(prefixUri, 0, Len(prefixUri) - 1)
                        \o substrFrom(it, i + 1) \o Str(<<">">>)
       ELSE it

\* A plausible slip: the language tag is cut one byte too long.
expandPrefixLongLangtag(it, map) ==
  IF startsWith(it, Str(<<"?">>)) \/ startsWith(it, Str(<<"<">>))
    THEN [item |-> it, raised |-> FALSE]
    ELSE IF startsWith(it, Str(<<"@">>))
      THEN LET secondPos == find(it, Str(<<"@">>), 1)
           IN IF secondPos = npos
                THEN [item |-> it, raised |-> TRUE]
                ELSE [item |-> convertToLanguageTaggedPredicate(
                                 expandAfterLangtag(substrFrom(it, secondPos + 1), map),
                                 substr(it, 1, secondPos)),
                      raised |-> FALSE]
      ELSE [item |-> expandAfterLangtag(it, map), raised |-> FALSE]

\* A plausible slip: the language tag is not taken off the term before it
\* is wrapped again.
expandPrefixKeepTag(it, map) ==
  IF startsWith(it, Str(<<"?">>)) \/ startsWith(it, Str(<<"<">>))
    THEN [item |-> it, raised |-> FALSE]
    ELSE IF startsWith(it, Str(<<"@">>))
      THEN LET secondPos == find(it, Str(<<"@">>), 1)
           IN IF secondPos = npos
                THEN [item |-> it, raised |-> TRUE]
                ELSE [item |-> convertToLanguageTaggedPredicate(
                                 expandAfterLangtag(it, map),
                                 substr(it, 1, secondPos - 1)),
                      raised |-> FALSE]
      ELSE [item |-> expandAfterLangtag(it, map), raised |-> FALSE]

\* ParsedQuery::expandPrefix(string&, prefixMap): the term afterwards, and
\* whether ParseException was thrown.
expandPrefix(it, map) ==
  IF startsWith(it, Str(<<"?">>)) \/ startsWith(it, Str(<<"<">>))
    THEN [item |-> it, raised |-> FALSE]
    ELSE IF startsWith(it, Str(<<"@">>))
      THEN LET secondPos == find(it, Str(<<"@">>), 1)
           IN IF secondPos = npos
                THEN [item |-> it, raised |-> TRUE]
                ELSE [item |-> convertToLanguageTaggedPredicate(
                                 expandAfterLangtag(substrFrom(it, secondPos + 1), map),
                                 substr(it, 1, secondPos - 1)),
                      raised |-> FALSE]
      ELSE [item |-> expandAfterLangtag(it, map), raised |-> FALSE]

\* The terms expansion is tried on: an optional head, an optional literal
\* with datatype marker, a prefix name with ':' or none, a local part.
ItemHeads == {<<>>, Str(<<"@", "e", "n", "@">>), Str(<<"@", "e", "n">>), Str(<<"?">>), Str(<<"<">>)}
ItemLiterals == {<<>>, Str(<<"\"", "5", "\"", "^", "^">>), Str(<<"\"", "a", ":", "b", "\"", "^", "^">>)}
ItemNames == {foaf \o Str(<<":">>), rdfs \o Str(<<":">>), ql \o Str(<<":">>),
              xsd \o Str(<<":">>), Str(<<":">>), <<>>}
ItemLocals == {Str(<<"k", "n", "o", "w", "s">>), Str(<<"l", "a", "b", "e", "l">>), Str(<<"a", ":", "b">>), Str(<<"x", "^", "^", "y">>), <<>>}
Items == {h \o l \o n \o t : h \in ItemHeads, l \in ItemLiterals,
                            n \in ItemNames, t \in ItemLocals}

\* The lists of declared prefixes.
PrefixLists ==
  { <<>>,
    <<[_prefix |-> foaf, _uri |-> foafUri]>>,
    <<[_prefix |-> foaf, _uri |-> foafUri], [_prefix |-> rdfs, _uri |-> rdfsUri]>>,
    <<[_prefix |-> foaf, _uri |-> otherUri], [_prefix |-> <<>>, _uri |-> otherUri],
      [_prefix |-> foaf, _uri |-> foafUri]>>,
    <<[_prefix |-> ql, _uri |-> otherUri], [_prefix |-> foaf, _uri |-> foafUri]>> }

NoExpandOut == [done |-> FALSE, raised |-> FALSE]

IdleExpand ==
  /\ _prefixes = <<>> /\ item0 = <<>> /\ item = <<>>
  /\ expandOut = NoExpandOut

\* expandPrefix is called on the term with the prefix map of the query.
ExpandItem ==
  /\ ~expandOut.done
  /\ item' = expandPrefix(item, prefixMap).item
  /\ expandOut' = [done |-> TRUE, raised |-> expandPrefix(item, prefixMap).raised]
  /\ UNCHANGED <<_prefixes, item0>>

-----------------------------------------------------------------------------
(* ParsedQuery: graph patterns and the expansion of all prefixes *)

\* PropertyPath: an IRI leaf and an inner node.
Iri(s) ==
  [_operation |-> "IRI", _iri |-> s, _limit |-> 0, _children |-> <<>>,
   _can_be_null |-> FALSE]
PathOp(op, limit, children) ==
  [_operation |-> op, _iri |-> <<>>, _limit |-> limit, _children |-> children,
   _can_be_null |-> FALSE]

\* The IRI leaf p with the outcome r of expandPrefix on its _iri.
leafAfter(p, r) == [path |-> [p EXCEPT !._iri = r.item], raised |-> r.raised]

\* The inner node p with the outcomes rs of the calls on its children: the
\* stack hands out the last child first, so the children behind the one
\* ParseException is thrown in are done and those before it are not touched.
nodeAfter(p, rs) ==
  LET thrown == {k \in 1..Len(p._children) : rs[k].raised}
      stop == IF thrown = {} THEN 0
              ELSE CHOOSE k \in thrown : \A j \in thrown : j <= k
  IN [path |-> [p EXCEPT !._children =
                  [k \in 1..Len(p._children) |->
                     IF k >= stop THEN rs[k].path ELSE p._children[k]]],
      raised |-> thrown # {}]

\* ParsedQuery::expandPrefix(PropertyPath&, prefixMap): every IRI leaf is
\* expanded.  The path afterwards and whether ParseException was thrown.
RECURSIVE expandPath(_, _)
expandPath(p, map) ==
  IF p._operation = "IRI"
    THEN leafAfter(p, expandPrefix(p._iri, map))
    ELSE nodeAfter(p, [k \in 1..Len(p._children) |-> expandPath(p._children[k], map)])

\* ad_utility::split(orig, sep): the parts between the separators, none for
\* the empty string.
RECURSIVE split(_, _)
split(orig, sep) ==
  IF orig = <<>> THEN <<>>
  ELSE LET sepIndex == find(orig, <<sep>>, 0)
       IN IF sepIndex = npos THEN <<orig>>
          ELSE IF sepIndex + 1 = Len(orig) THEN <<substr(orig, 0, sepIndex), <<>>>>
          ELSE <<substr(orig, 0, sepIndex)>> \o split(substrFrom(orig, sepIndex + 1), sep)

\* A plausible slip: only the IRI <in-context> itself is recognised.
isInContextExact(p) ==
  /\ p._operation = "IRI"
  /\ p._iri = Str(<<"<", "i", "n", "-", "c", "o", "n", "t", "e", "x", "t", ">">>)

\* ParsedQuery::expandPrefixes, the test for a predicate whose object is a
\* list of terms.
isInContext(p) ==
  /\ p._operation = "IRI"
  /\ find(p._iri, Str(<<"i", "n", "-", "c", "o", "n", "t", "e", "x", "t">>), 0) # npos

\* ParsedQuery::expandPrefixes, the loop over the tokens of an object: o is
\* what was assembled before token i, r the outcome of expandPrefix on it.
RECURSIVE expandTokens(_, _, _, _)
tokenAfter(tokens, i, o, r, map) ==
  IF r.raised THEN [o |-> o, raised |-> TRUE]
  ELSE expandTokens(tokens, i + 1,
                    o \o r.item \o (IF i + 1 <= Len(tokens) THEN Str(<<" ">>) ELSE <<>>),
                    map)
expandTokens(tokens, i, o, map) ==
  IF i > Len(tokens) THEN [o |-> o, raised |-> FALSE]
  ELSE tokenAfter(tokens, i, o, expandPrefix(tokens[i], map), map)

\* ParsedQuery::expandPrefixes, the object of a triple with predicate p.
objectAfter(r) == [o |-> r.item, raised |-> r.raised]
expandObject(p, o, map) ==
  IF isInContext(p) THEN expandTokens(split(o, Ord(" ")), 1, <<>>, map)
  ELSE objectAfter(expandPrefix(o, map))

\* ParsedQuery::expandPrefixes, the body of the loop over the triples:
\* subject, predicate, object, each with the outcome of its expansion.
tripleAfterO(trip, ro) == [trip |-> [trip EXCEPT !._o = ro.o], raised |-> ro.raised]
tripleAfterP(trip, rp, map) ==
  IF rp.raised THEN [trip |-> [trip EXCEPT !._p = rp.path], raised |-> TRUE]
  ELSE tripleAfterO([trip EXCEPT !._p = rp.path], expandObject(rp.path, trip._o, map))
tripleAfterS(trip, rs, map) ==
  IF rs.raised THEN [trip |-> trip, raised |-> TRUE]
  ELSE tripleAfterP([trip EXCEPT !._s = rs.item], expandPath(trip._p, map), map)
expandTriple(trip, map) == tripleAfterS(trip, expandPrefix(trip._s, map), map)

\* ParsedQuery::expandPrefixes, the loop over the triples of a pattern, from
\* triple k on; r is the outcome of the body on triple k.
RECURSIVE expandTriples(_, _, _)
triplesAfter(ts, k, r, map) ==
  IF r.raised THEN [list |-> [ts EXCEPT ![k] = r.trip], raised |-> TRUE]
  ELSE expandTriples([ts EXCEPT ![k] = r.trip], k + 1, map)
expandTriples(ts, k, map) ==
  IF k > Len(ts) THEN [list |-> ts, raised |-> FALSE]
  ELSE triplesAfter(ts, k, expandTriple(ts[k], map), map)

\* ParsedQuery::expandPrefixes, the loop over the filters of a pattern, from
\* filter k on: _lhs, then _rhs.
RECURSIVE expandFilters(_, _, _)
filterAfterRhs(fs, k, rr, map) ==
  IF rr.raised THEN [list |-> fs, raised |-> TRUE]
  ELSE expandFilters([fs EXCEPT ![k]._rhs = rr.item], k + 1, map)
filterAfterLhs(fs, k, rl, map) ==
  IF rl.raised THEN [list |-> fs, raised |-> TRUE]
  ELSE filterAfterRhs([fs EXCEPT ![k]._lhs = rl.item], k, expandPrefix(fs[k]._rhs, map), map)
expandFilters(fs, k, map) ==
  IF k > Len(fs) THEN [list |-> fs, raised |-> FALSE]
  ELSE filterAfterLhs(fs, k, expandPrefix(fs[k]._lhs, map), map)

\* ParsedQuery::expandPrefixes, the loops over the triples and the filters
\* of a pattern: the pattern afterwards and whether ParseException ended them.
patternAfterFilters(pat, rf) == [pattern |-> [pat EXCEPT !._filters = rf.list], raised |-> rf.raised]
patternAfterTriples(pat, rt, map) ==
  IF rt.raised THEN [pattern |-> [pat EXCEPT !._whereClauseTriples = rt.list], raised |-> TRUE]
  ELSE patternAfterFilters([pat EXCEPT !._whereClauseTriples = rt.list],
                           expandFilters(pat._filters, 1, map))
expandPattern(pat, map) ==
  patternAfterTriples(pat, expandTriples(pat._whereClauseTriples, 1, map), map)

\* GraphPatternOperation of the four types; the members the type does not
\* use are empty.
Optional(g) ==
  [_type |-> "OPTIONAL", _childGraphPatterns |-> <<g>>, _subquery |-> 0,
   _childGraphPattern |-> 0]
Union(g, h) ==
  [_type |-> "UNION", _childGraphPatterns |-> <<g, h>>, _subquery |-> 0,
   _childGraphPattern |-> 0]
Subquery(q) ==
  [_type |-> "SUBQUERY", _childGraphPatterns |-> <<>>, _subquery |-> q,
   _childGraphPattern |-> 0]
TransPath(g) ==
  [_type |-> "TRANS_PATH", _childGraphPatterns |-> <<>>, _subquery |-> 0,
   _childGraphPattern |-> g]

\* A GraphPattern with child operations and no triple or filter yet.
Pattern(children) ==
  [_children |-> children, _whereClauseTriples |-> <<>>, _filters |-> <<>>, _id |-> 0]

\* The trees of graph patterns: for each the root pattern of every query
\* (the first query is the outer one) and the patterns.
QueryShapes ==
  { [roots |-> <<1>>, pats |-> <<Pattern(<<>>)>>],
    [roots |-> <<1>>,
     pats |-> <<Pattern(<<Union(2, 3), Optional(4)>>), Pattern(<<Optional(5)>>),
                Pattern(<<>>), Pattern(<<>>), Pattern(<<>>)>>],
    [roots |-> <<1, 2, 3>>,
     pats |-> <<Pattern(<<Subquery(2), Subquery(3)>>), Pattern(<<Optional(4)>>),
                Pattern(<<>>), Pattern(<<>>)>>],
    [roots |-> <<1>>,
     pats |-> <<Pattern(<<TransPath(0), Optional(2)>>), Pattern(<<TransPath(3)>>),
                Pattern(<<>>)>>],
    [roots |-> <<1, 3, 6>>,
     pats |-> <<Pattern(<<Optional(2), Subquery(2)>>), Pattern(<<TransPath(7)>>),
                Pattern(<<Union(4, 5), Subquery(3)>>), Pattern(<<>>), Pattern(<<>>),
                Pattern(<<>>), Pattern(<<>>)>>] }

\* The terms of triples and filters.
varX == Str(<<"?", "x">>)
foafA == foaf \o Str(<<":", "a">>)
rdfsB == rdfs \o Str(<<":", "b">>)
foafAspaceRdfsB == foafA \o Str(<<" ">>) \o rdfsB
atEn == Str(<<"@", "e", "n">>)
inContext == Str(<<"<", "i", "n", "-", "c", "o", "n", "t", "e", "x", "t", ">">>)
qlInContext == ql \o Str(<<":", "i", "n", "-", "c", "o", "n", "t", "e", "x", "t">>)
enRdfsLabel == Str(<<"@", "e", "n", "@">>) \o rdfs \o Str(<<":", "l", "a", "b", "e", "l">>)

Subjects == {varX, foafA, atEn}
Predicates ==
  { Iri(foafA), Iri(inContext), Iri(qlInContext), Iri(enRdfsLabel),
    PathOp("SEQUENCE", 0, <<Iri(foafA), PathOp("TRANSITIVE", 0, <<Iri(rdfsB)>>)>>),
    PathOp("ALTERNATIVE", 0, <<Iri(atEn), Iri(rdfsB)>>) }
Objects == {varX, foafA, foafAspaceRdfsB, Str(<<" ">>) \o foafA \o Str(<<" ", " ">>) \o atEn}

plainTriple == [_s |-> foafA, _p |-> Iri(rdfsB), _o |-> varX]
plainFilter == [_lhs |-> varX, _rhs |-> foafA]
typedFoafA == Str(<<"\"", "5", "\"", "^", "^">>) \o foafA

\* The triples tried: every subject, and every predicate with every object.
Triples ==
  {[plainTriple EXCEPT !._s = a] : a \in Subjects}
    \cup {[plainTriple EXCEPT !._p = b, !._o = c] : b \in Predicates, c \in Objects}

\* The triples of the pattern under test: none, one, or one before a plain
\* one; and its filters.
TripleLists == {<<>>} \cup {<<t>> : t \in Triples} \cup {<<t, plainTriple>> : t \in Triples}
FilterLists ==
  { <<>>, <<plainFilter>>, <<[_lhs |-> rdfsB, _rhs |-> atEn], plainFilter>>,
    <<[_lhs |-> typedFoafA, _rhs |-> rdfsB]>> }

\* What the pattern under test holds: any of the triple lists with the plain
\* filter, or any of the filter lists behind a plain or a failing triple.
PatternContents ==
  {[triples |-> ts, filters |-> <<plainFilter>>] : ts \in TripleLists}
    \cup {[triples |-> ts, filters |-> fs] :
            ts \in {<<plainTriple>>, <<[plainTriple EXCEPT !._s = atEn]>>},
            fs \in FilterLists}

\* The prefixes a sub-select declares itself.
SubPrefixLists == {<<>>, <<[_prefix |-> foaf, _uri |-> otherUri]>>}

IdleQuery ==
  /\ queries = <<>> /\ patterns = <<>>
  /\ queries0 = <<>> /\ patterns0 = <<>>
  /\ frames = <<>> /\ epc = "idle" /\ visits = <<>>

\* A query of one of the shapes: the pattern under test holds the triples
\* and filters chosen, every other pattern the plain triple and filter.
queryInputs ==
  \E shape \in QueryShapes, outer \in PrefixLists, inner \in SubPrefixLists :
    \E g \in 1..Len(shape.pats) : \E c \in PatternContents :
      /\ queries = [q \in 1..Len(shape.roots) |->
                      [_prefixes |-> IF q = 1 THEN outer ELSE inner,
                       _rootGraphPattern |-> shape.roots[q]]]
      /\ patterns = [h \in 1..Len(shape.pats) |->
                       [shape.pats[h] EXCEPT
                          !._whereClauseTriples = IF h = g THEN c.triples ELSE <<plainTriple>>,
                          !._filters = IF h = g THEN c.filters ELSE <<plainFilter>>]]

\* ParsedQuery::expandPrefixes, the prefix map of a list of prefixes.
mapOf(prefixes) == prefixMapFrom([k \in {ql} |-> qlUri], prefixes)

\* The local variables of a call of expandPrefixes on query q of qs.
frameOf(qs, q) ==
  [query |-> q,
   prefixMap |-> mapOf(qs[q]._prefixes),
   graphPatterns |-> <<qs[q]._rootGraphPattern>>,
   pattern |-> 0, child |-> 1]

frame == frames[Len(frames)]
setFrame(f) == [frames EXCEPT ![Len(frames)] = f]

\* ParsedQuery::expandPrefixes is called on the outer query.
EPCall ==
  /\ epc = "idle"
  /\ frames' = <<frameOf(queries, 1)>>
  /\ epc' = "running"
  /\ UNCHANGED <<queries, patterns, queries0, patterns0, visits>>

\* The head of the while loop: the last pattern is taken off the stack.
EPPop ==
  /\ epc = "running" /\ frame.pattern = 0 /\ frame.graphPatterns # <<>>
  /\ frames' = setFrame([frame EXCEPT
                         !.pattern = frame.graphPatterns[Len(frame.graphPatterns)],
                         !.graphPatterns = SubSeq(@, 1, Len(@) - 1),
                         !.child = 1])
  /\ UNCHANGED <<queries, patterns, queries0, patterns0, epc, visits>>

\* A plausible slip: the sub-select keeps its own prefixes.
inheritNothing(qs, subquery, q) == qs

\* p->_subquery->_prefixes = _prefixes
inheritPrefixes(qs, subquery, q) == [qs EXCEPT ![subquery]._prefixes = qs[q]._prefixes]

\* The loop over the child operations, SUBQUERY: the sub-select gets the
\* prefixes and expandPrefixes is called on it.
EPChildSubquery ==
  /\ epc = "running" /\ frame.pattern # 0
  /\ frame.child <= Len(patterns[frame.pattern]._children)
  /\ LET p == patterns[frame.pattern]._children[frame.child]
     IN /\ p._type = "SUBQUERY"
        /\ queries' = inheritPrefixes(queries, p._subquery, frame.query)
        /\ frames' = Append(setFrame([frame EXCEPT !.child = @ + 1]),
                            frameOf(inheritPrefixes(queries, p._subquery, frame.query),
                                    p._subquery))
  /\ UNCHANGED <<patterns, queries0, patterns0, epc, visits>>

\* The loop over the child operations, OPTIONAL and UNION: the child
\* patterns go onto the stack.
EPChildPatterns ==
  /\ epc = "running" /\ frame.pattern # 0
  /\ frame.child <= Len(patterns[frame.pattern]._children)
  /\ LET p == patterns[frame.pattern]._children[frame.child]
     IN /\ p._type \in {"OPTIONAL", "UNION"}
        /\ frames' = setFrame([frame EXCEPT !.child = @ + 1,
                                        !.graphPatterns = @ \o p._childGraphPatterns])
  /\ UNCHANGED <<queries, patterns, queries0, patterns0, epc, visits>>

\* The loop over the child operations, TRANS_PATH: _childGraphPatterns is read
\* although the operation holds _pathData in the same storage.  The bytes of
\* _pathData are taken for a vector: it is found empty, or the loop over it
\* leaves the object and the program ends.
EPChildTransPath ==
  /\ epc = "running" /\ frame.pattern # 0
  /\ frame.child <= Len(patterns[frame.pattern]._children)
  /\ patterns[frame.pattern]._children[frame.child]._type = "TRANS_PATH"
  /\ \/ /\ frames' = setFrame([frame EXCEPT !.child = @ + 1])
        /\ epc' = epc
     \/ /\ frames' = <<>>
        /\ epc' = "crashed"
  /\ UNCHANGED <<queries, patterns, queries0, patterns0, visits>>

\* The loops over the triples and the filters of the pattern have had the
\* outcome r.
EPTriplesWith(r) ==
  /\ patterns' = [patterns EXCEPT ![frame.pattern] = r.pattern]
  /\ frames' = IF r.raised THEN <<>> ELSE setFrame([frame EXCEPT !.pattern = 0])
  /\ epc' = IF r.raised THEN "raised" ELSE epc
  /\ visits' = [visits EXCEPT ![frame.pattern] = @ + 1]
  /\ UNCHANGED <<queries, queries0, patterns0>>

\* The loops over the triples and the filters of the pattern.
EPTriples ==
  /\ epc = "running" /\ frame.pattern # 0
  /\ frame.child > Len(patterns[frame.pattern]._children)
  /\ EPTriplesWith(expandPattern(patterns[frame.pattern], frame.prefixMap))

\* The stack is empty: the call returns.
EPReturn ==
  /\ epc = "running" /\ frame.pattern = 0 /\ frame.graphPatterns = <<>>
  /\ frames' = SubSeq(frames, 1, Len(frames) - 1)
  /\ epc' = IF Len(frames) = 1 THEN "done" ELSE epc
  /\ UNCHANGED <<queries, patterns, queries0, patterns0, visits>>

\* ParsedQuery::expandPrefixes is called on the outer query a second time,
\* after the first call has returned.
EPCallAgain ==
  /\ epc = "done" /\ visits[queries[1]._rootGraphPattern] = 1
  /\ frames' = <<frameOf(queries, 1)>>
  /\ epc' = "running"
  /\ queries0' = queries /\ patterns0' = patterns
  /\ UNCHANGED <<queries, patterns, visits>>

-----------------------------------------------------------------------------
(* ParsedQuery: aliases of the projection and of the order *)

\* ::std::isspace in the C locale.
isspace(c) == c \in {Ord(" "), 9, 10, 11, 12, 13}

\* ad_utility::strip(text, " \t\n"): the characters are taken off both ends.
RECURSIVE strip(_)
strip(text) ==
  IF text = <<>> THEN text
  ELSE IF text[1] \in {Ord(" "), 9, 10} THEN strip(Tail(text))
  ELSE IF text[Len(text)] \in {Ord(" "), 9, 10} THEN strip(SubSeq(text, 1, Len(text) - 1))
  ELSE text

\* The heads parseAlias knows.
aggregateHeads ==
  { Str(<<"c", "o", "u", "n", "t">>),
    Str(<<"g", "r", "o", "u", "p", "_", "c", "o", "n", "c", "a", "t">>),
    Str(<<"f", "i", "r", "s", "t">>), Str(<<"l", "a", "s", "t">>),
    Str(<<"s", "a", "m", "p", "l", "e">>), Str(<<"m", "i", "n">>),
    Str(<<"m", "a", "x">>), Str(<<"s", "u", "m">>), Str(<<"a", "v", "g">>) }

\* A plausible slip: any head is taken for an aggregate.
hasAnyHead(lowerInner) == TRUE

\* ParsedQuery::parseAlias, the test of the head.
hasAggregateHead(lowerInner) == \E h \in aggregateHeads : startsWith(lowerInner, h)

\* while (pos < alias.size() && isspace(alias[pos])) pos++
RECURSIVE skipSpaces(_, _)
skipSpaces(alias, pos) ==
  IF pos < Len(alias) /\ isspace(alias[pos + 1]) THEN skipSpaces(alias, pos + 1) ELSE pos

\* while (pos < alias.size() && !isspace(alias[pos])) pos++
RECURSIVE skipToken(_, _)
skipToken(alias, pos) ==
  IF pos < Len(alias) /\ ~isspace(alias[pos + 1]) THEN skipToken(alias, pos + 1) ELSE pos

\* ParsedQuery::parseAlias, the position behind "distinct" and the space
\* after it, if it stands at pos.
skipDistinct(alias, lowerInner, pos) ==
  IF substr(lowerInner, pos, 8) = Str(<<"d", "i", "s", "t", "i", "n", "c", "t">>)
    THEN skipSpaces(alias, pos + 8)
    ELSE pos

\* ParsedQuery::parseAlias, where the input variable starts: behind the
\* bracket found from position 1 on (npos + 1 is position 0), space and
\* "distinct".
inputStart(alias, lowerInner) ==
  skipDistinct(alias, lowerInner, skipSpaces(alias, find(alias, Str(<<"(">>), 1) + 1))

\* A plausible slip: an alias is appended whatever the list holds.
recordAliasAlways(aliases, a, newVarName) ==
  [raised |-> FALSE, newVarName |-> newVarName, _aliases |-> Append(aliases, a)]

\* A plausible slip: the alias is appended before the list is searched, so
\* a refused alias stays in the list.
recordAliasFirst(aliases, a, newVarName) ==
  LET same == {k \in 1..Len(aliases) : aliases[k]._outVarName = a._outVarName}
      other == aliases[CHOOSE k \in same : \A j \in same : k <= j]
  IN IF same = {}
       THEN [raised |-> FALSE, newVarName |-> newVarName, _aliases |-> Append(aliases, a)]
       ELSE IF other._isAggregate # a._isAggregate \/ other._function # a._function
         THEN [raised |-> TRUE, newVarName |-> newVarName, _aliases |-> Append(aliases, a)]
         ELSE [raised |-> FALSE, newVarName |-> newVarName, _aliases |-> aliases]

\* ParsedQuery::parseAlias, the loop over _aliases: the first alias with the
\* output variable of a decides.
recordAlias(aliases, a, newVarName) ==
  LET same == {k \in 1..Len(aliases) : aliases[k]._outVarName = a._outVarName}
      other == aliases[CHOOSE k \in same : \A j \in same : k <= j]
  IN IF same = {}
       THEN [raised |-> FALSE, newVarName |-> newVarName, _aliases |-> Append(aliases, a)]
       ELSE IF other._isAggregate # a._isAggregate \/ other._function # a._function
         THEN [raised |-> TRUE, newVarName |-> newVarName, _aliases |-> aliases]
         ELSE [raised |-> FALSE, newVarName |-> newVarName, _aliases |-> aliases]

\* ParsedQuery::parseAlias from the input variable on: it starts at start
\* and its token ends before pos.
aliasWithInput(alias, aliases, newVarName, start, pos) ==
  IF pos = start \/ pos >= Len(alias)
    THEN [raised |-> TRUE, newVarName |-> newVarName, _aliases |-> aliases]
    ELSE recordAlias(aliases,
                     [_isAggregate |-> TRUE, _outVarName |-> newVarName,
                      _function |-> alias,
                      _inVarName |-> substr(alias, start, pos - start - 1)],
                     newVarName)

aliasFrom(alias, aliases, newVarName, start) ==
  aliasWithInput(alias, aliases, newVarName, start, skipToken(alias, start))

\* ParsedQuery::parseAlias from the keyword as on, found at pos.
aliasWithAs(alias, lowerInner, aliases, pos) ==
  IF pos = npos
    THEN [raised |-> TRUE, newVarName |-> <<>>, _aliases |-> aliases]
    ELSE aliasFrom(alias, aliases, strip(substrFrom(alias, pos + 1 + 2)),
                   inputStart(alias, lowerInner))

\* ParsedQuery::parseAlias with the alias in lower case.
aliasWithLower(alias, lowerInner, aliases) ==
  IF hasAggregateHead(lowerInner)
    THEN aliasWithAs(alias, lowerInner, aliases,
                     find(lowerInner, Str(<<" ", "a", "s", " ">>), 0))
    ELSE [raised |-> TRUE, newVarName |-> <<>>, _aliases |-> aliases]

\* ParsedQuery::parseAlias(alias): whether ParseException is thrown, the
\* name returned, and _aliases afterwards.
parseAlias(alias, aliases) == aliasWithLower(alias, getLowercaseUtf8(alias), aliases)

\* The parts alias texts are made of.
AliasHeads == {Str(<<"C", "O", "U", "N", "T">>), Str(<<"s", "u", "m">>)}
AliasLead == {<<>>, Str(<<" ">>), Str(<<"D", "I", "S", "T", "I", "N", "C", "T", " ">>),
              Str(<<" ", "d", "i", "s", "t", "i", "n", "c", "t", " ", " ">>)}
AliasInputs == {Str(<<"?", "x">>), Str(<<"?", "a", "b">>)}
AliasTrail == {<<>>, Str(<<" ">>)}
AliasOutputs == {Str(<<" ", "a", "s", " ", "?", "n">>), Str(<<" ", "A", "S", " ", " ", "?", "n", " ">>),
                 Str(<<" ", "a", "s", " ", "?", "m">>)}

\* HEAD(X) as ?out and HEAD(DISTINCT X) as ?out with space around X.
aliasText(head, lead, in, trail, out) ==
  head \o Str(<<"(">>) \o lead \o in \o trail \o Str(<<")">>) \o out
ShapedAliases ==
  {aliasText(h, l, i, t, o) : h \in AliasHeads, l \in AliasLead, i \in AliasInputs,
                               t \in AliasTrail, o \in AliasOutputs}

\* Alias texts of other shapes: an unknown head, no as, as without space
\* around it, no bracket, no input variable, nothing behind the bracket.
OtherAliases ==
  { Str(<<"F", "O", "O", "(", "?", "x", ")", " ", "a", "s", " ", "?", "n">>),
    Str(<<"C", "O", "U", "N", "T", "(", "?", "x", ")">>),
    Str(<<"C", "O", "U", "N", "T", "(", "?", "x", ")", "a", "s", " ", "?", "n">>),
    Str(<<"m", "a", "x", " ", "?", "x", " ", "a", "s", " ", "?", "n">>),
    Str(<<"C", "O", "U", "N", "T", " ", "a", "s", " ", "(", "?", "x", ")">>),
    Str(<<"a", "v", "g", " ", "a", "s", " ", "?", "n", "(">>),
    Str(<<"?", "x", " ", "a", "s", " ", "?", "n">>) }
AliasTexts == ShapedAliases \cup OtherAliases

inParens(text) == Str(<<"(">>) \o text \o Str(<<")">>)
countXasN == Str(<<"C", "O", "U", "N", "T", "(", "?", "x", ")", " ", "a", "s", " ", "?", "n">>)
countDistinctXasN ==
  Str(<<"C", "O", "U", "N", "T", "(", "D", "I", "S", "T", "I", "N", "C", "T", " ", "?", "x", ")",
        " ", "a", "s", " ", "?", "n">>)

\* The projections: an alias, alone, twice, or before one of a few entries.
SecondEntries == {Str(<<"?", "y">>), inParens(countXasN), inParens(countDistinctXasN)}
Projections ==
  {<<inParens(a)>> : a \in AliasTexts}
    \cup {<<inParens(a), inParens(a)>> : a \in AliasTexts}
    \cup {<<inParens(a), b>> : a \in AliasTexts, b \in SecondEntries}

\* The keys of the order.
Orders ==
  { <<>>,
    <<[_key |-> inParens(countXasN), _desc |-> TRUE]>>,
    <<[_key |-> Str(<<"?", "x">>), _desc |-> FALSE],
      [_key |-> inParens(Str(<<"s", "u", "m", "(", "?", "x", ")", " ", "a", "s", " ", "?", "n">>)),
       _desc |-> TRUE]>> }

NoAlias == [made |-> FALSE, alias |-> <<>>, raised |-> FALSE, newVarName |-> <<>>,
            before |-> <<>>, loop |-> "none", index |-> 0]

IdleAlias ==
  /\ _selectedVariables = <<>> /\ _orderBy = <<>> /\ _aliases = <<>>
  /\ selected0 = <<>> /\ orderBy0 = <<>>
  /\ paI = 1 /\ paJ = 1 /\ paRaised = FALSE /\ lastAlias = NoAlias

\* What a call of parseAlias on text leaves: r is its outcome, the text was
\* entry index of loop.
called(text, r, loop, index) ==
  /\ _aliases' = r._aliases
  /\ paRaised' = r.raised
  /\ lastAlias' = [made |-> TRUE, alias |-> text, raised |-> r.raised,
                   newVarName |-> r.newVarName, before |-> _aliases,
                   loop |-> loop, index |-> index]

\* ParsedQuery::parseAliases, the loop over _selectedVariables, an alias:
\* the entry becomes what parseAlias returns.
PASelectedWith(text, r) ==
  /\ called(text, r, "selected", paI)
  /\ _selectedVariables' = IF r.raised THEN _selectedVariables
                           ELSE [_selectedVariables EXCEPT ![paI] = r.newVarName]
  /\ paI' = paI + 1
  /\ UNCHANGED <<_orderBy, selected0, orderBy0, paJ>>

PASelectedAlias ==
  /\ ~paRaised /\ paI <= Len(_selectedVariables)
  /\ _selectedVariables[paI][1] = Ord("(")
  /\ PASelectedWith(substr(_selectedVariables[paI], 1, Len(_selectedVariables[paI]) - 2),
                    parseAlias(substr(_selectedVariables[paI], 1,
                                      Len(_selectedVariables[paI]) - 2), _aliases))

\* ParsedQuery::parseAliases, the loop over _selectedVariables, no alias.
PASelectedVariable ==
  /\ ~paRaised /\ paI <= Len(_selectedVariables)
  /\ _selectedVariables[paI][1] # Ord("(")
  /\ paI' = paI + 1
  /\ UNCHANGED <<_selectedVariables, _orderBy, _aliases, selected0, orderBy0, paJ,
                 paRaised, lastAlias>>

\* ParsedQuery::parseAliases, the loop over _orderBy, an alias: the key
\* becomes what parseAlias returns.
PAOrderWith(text, r) ==
  /\ called(text, r, "order", paJ)
  /\ _orderBy' = IF r.raised THEN _orderBy
                 ELSE [_orderBy EXCEPT ![paJ]._key = r.newVarName]
  /\ paJ' = paJ + 1
  /\ UNCHANGED <<_selectedVariables, selected0, orderBy0, paI>>

PAOrderAlias ==
  /\ ~paRaised /\ paI > Len(_selectedVariables) /\ paJ <= Len(_orderBy)
  /\ _orderBy[paJ]._key[1] = Ord("(")
  /\ PAOrderWith(substr(_orderBy[paJ]._key, 1, Len(_orderBy[paJ]._key) - 2),
                 parseAlias(substr(_orderBy[paJ]._key, 1, Len(_orderBy[paJ]._key) - 2),
                            _aliases))

\* ParsedQuery::parseAliases, the loop over _orderBy, no alias.
PAOrderKey ==
  /\ ~paRaised /\ paI > Len(_selectedVariables) /\ paJ <= Len(_orderBy)
  /\ _orderBy[paJ]._key[1] # Ord("(")
  /\ paJ' = paJ + 1
  /\ UNCHANGED <<_selectedVariables, _orderBy, _aliases, selected0, orderBy0, paI,
                 paRaised, lastAlias>>

-----------------------------------------------------------------------------
(* ParsedQuery::GraphPattern: the ids of the patterns *)

\* The ids the patterns may hold before they are computed.
StaleIds == {[h \in 1..7 |-> 0], [h \in 1..7 |-> 5], [h \in 1..7 |-> 7 - h]}

\* The trees numbered: those above, a deeper one with a path in the middle,
\* and the same tree with its patterns stored in another order.
IdShapes ==
  QueryShapes \cup
  { [roots |-> <<1>>,
     pats |-> <<Pattern(<<TransPath(2), Union(5, 6)>>), Pattern(<<Optional(3), TransPath(0)>>),
                Pattern(<<Union(4, 7)>>), Pattern(<<>>), Pattern(<<>>), Pattern(<<>>),
                Pattern(<<>>)>>],
    [roots |-> <<7>>,
     pats |-> <<Pattern(<<>>), Pattern(<<>>), Pattern(<<Optional(6), TransPath(0)>>),
                Pattern(<<>>), Pattern(<<>>), Pattern(<<Union(5, 4)>>),
                Pattern(<<TransPath(3), Union(1, 2)>>)>>] }

IdleIds == ridFrames = <<>> /\ id_count = 0 /\ ridc = "idle" /\ ridRoot = 0

ridFrame == ridFrames[Len(ridFrames)]
ridOp == patterns[ridFrame.pattern]._children[ridFrame.child]

\* GraphPattern::recomputeIds starts on pattern p: it takes the value of the
\* counter as its id and counts on. Its loop is at its first child.
numbered(p) == [patterns EXCEPT ![p]._id = id_count]
ridFrameOf(p) == [pattern |-> p, child |-> 1, sub |-> 1]

\* recomputeIds() is called on the root pattern of a query, with a counter
\* of its own that starts at 0.
RICall ==
  /\ ridc = "idle"
  /\ \E q \in DOMAIN queries :
       /\ ridRoot' = queries[q]._rootGraphPattern
       /\ patterns' = [patterns EXCEPT ![queries[q]._rootGraphPattern]._id = 0]
       /\ ridFrames' = <<ridFrameOf(queries[q]._rootGraphPattern)>>
  /\ id_count' = 1
  /\ ridc' = "running"
  /\ UNCHANGED <<queries, queries0, patterns0, frames, epc, visits>>

\* The loop over _children, OPTIONAL and UNION: the next of the child
\* patterns is numbered by a call of its own.
RIChildPatterns ==
  /\ ridc = "running" /\ ridFrame.child <= Len(patterns[ridFrame.pattern]._children)
  /\ ridOp._type \in {"OPTIONAL", "UNION"}
  /\ ridFrame.sub <= Len(ridOp._childGraphPatterns)
  /\ patterns' = numbered(ridOp._childGraphPatterns[ridFrame.sub])
  /\ id_count' = id_count + 1
  /\ ridFrames' = Append([ridFrames EXCEPT ![Len(ridFrames)].sub = @ + 1],
                         ridFrameOf(ridOp._childGraphPatterns[ridFrame.sub]))
  /\ UNCHANGED <<queries, queries0, patterns0, frames, epc, visits, ridc, ridRoot>>

\* OPTIONAL and UNION: all child patterns are done, break.
RIChildPatternsDone ==
  /\ ridc = "running" /\ ridFrame.child <= Len(patterns[ridFrame.pattern]._children)
  /\ ridOp._type \in {"OPTIONAL", "UNION"}
  /\ ridFrame.sub > Len(ridOp._childGraphPatterns)
  /\ ridFrames' = [ridFrames EXCEPT ![Len(ridFrames)].child = @ + 1,
                                    ![Len(ridFrames)].sub = 1]
  /\ UNCHANGED <<queries, patterns, queries0, patterns0, frames, epc, visits, id_count,
                 ridc, ridRoot>>

\* A plausible slip: the pattern of a path is passed over.
transPathChildNone(op) == 0

\* The pattern of a TRANS_PATH operation, 0 for nullptr.
transPathChild(op) == op._childGraphPattern

\* TRANS_PATH: the pattern of the path, if there is one, is numbered by a
\* call of its own.
RIChildTransPath ==
  /\ ridc = "running" /\ ridFrame.child <= Len(patterns[ridFrame.pattern]._children)
  /\ ridOp._type = "TRANS_PATH"
  /\ \/ /\ transPathChild(ridOp) # 0
        /\ patterns' = numbered(transPathChild(ridOp))
        /\ id_count' = id_count + 1
        /\ ridFrames' = Append([ridFrames EXCEPT ![Len(ridFrames)].child = @ + 1],
                               ridFrameOf(transPathChild(ridOp)))
     \/ /\ transPathChild(ridOp) = 0
        /\ ridFrames' = [ridFrames EXCEPT ![Len(ridFrames)].child = @ + 1]
        /\ UNCHANGED <<patterns, id_count>>
  /\ UNCHANGED <<queries, queries0, patterns0, frames, epc, visits, ridc, ridRoot>>

\* SUBQUERY: the patterns of a sub-select have ids of their own.
RIChildSubquery ==
  /\ ridc = "running" /\ ridFrame.child <= Len(patterns[ridFrame.pattern]._children)
  /\ ridOp._type = "SUBQUERY"
  /\ ridFrames' = [ridFrames EXCEPT ![Len(ridFrames)].child = @ + 1]
  /\ UNCHANGED <<queries, patterns, queries0, patterns0, frames, epc, visits, id_count,
                 ridc, ridRoot>>

\* The loop over _children is over: recomputeIds returns.
RIReturn ==
  /\ ridc = "running" /\ ridFrame.child > Len(patterns[ridFrame.pattern]._children)
  /\ ridFrames' = SubSeq(ridFrames, 1, Len(ridFrames) - 1)
  /\ ridc' = IF Len(ridFrames) = 1 THEN "done" ELSE "running"
  /\ UNCHANGED <<queries, patterns, queries0, patterns0, frames, epc, visits, id_count,
                 ridRoot>>

-----------------------------------------------------------------------------
(* PropertyPath: whether a path can be empty *)

\* A plausible slip: the limit of TRANSITIVE_MIN is not looked at.
matchesEmptyAnyMin(p) ==
  p._operation \in {"TRANSITIVE", "TRANSITIVE_MAX", "TRANSITIVE_MIN"}

\* PropertyPath::computeCanBeNull, the operations that match the empty path.
matchesEmpty(p) ==
  \/ p._operation = "TRANSITIVE"
  \/ p._operation = "TRANSITIVE_MAX"
  \/ (p._operation = "TRANSITIVE_MIN" /\ p._limit = 0)

\* PropertyPath::computeCanBeNull on p, whose children are done already.
canBeNullWith(p, children) ==
  [p EXCEPT !._children = children,
            !._can_be_null =
               \/ (Len(children) > 0 /\ \A k \in 1..Len(children) : children[k]._can_be_null)
               \/ matchesEmpty(p)]

\* PropertyPath::computeCanBeNull(): the path with the flag of every node set.
RECURSIVE computeCanBeNull(_)
computeCanBeNull(p) ==
  canBeNullWith(p, [k \in 1..Len(p._children) |-> computeCanBeNull(p._children[k])])

\* The paths tried: leaves, operations on no, one and two leaves, and
\* operations on those; the flags hold stale, before they are computed.
iriB == Iri(rdfsB)
PathOperations == {"SEQUENCE", "ALTERNATIVE", "INVERSE", "TRANSITIVE", "TRANSITIVE_MAX",
                   "TRANSITIVE_MIN"}
PathLimits == {0, 1}
FlatPaths ==
  {PathOp(op, l, cs) : op \in PathOperations, l \in PathLimits,
                       cs \in {<<>>, <<iriB>>, <<iriB, iriB>>}}
DeepPaths ==
  {PathOp(op, l, <<a>>) : op \in PathOperations, l \in PathLimits, a \in FlatPaths}
    \cup {PathOp(op, 1, <<a, b>>) :
            op \in {"SEQUENCE", "ALTERNATIVE", "TRANSITIVE_MIN"}, a \in FlatPaths,
            b \in {iriB, PathOp("TRANSITIVE", 0, <<iriB>>),
                   PathOp("SEQUENCE", 0, <<iriB, PathOp("TRANSITIVE_MIN", 0, <<iriB>>)>>)}}
RECURSIVE staleFlags(_, _)
staleFlags(p, flag) ==
  [p EXCEPT !._can_be_null = flag,
            !._children = [k \in 1..Len(p._children) |-> staleFlags(p._children[k], flag)]]
NullPaths == {staleFlags(p, flag) : p \in {iriB} \cup FlatPaths \cup DeepPaths, flag \in BOOLEAN}

IdleNull == path = iriB /\ path0 = iriB /\ pathc = "idle"

\* computeCanBeNull() is called on the path.
ComputeCanBeNull ==
  /\ pathc = "idle"
  /\ path' = computeCanBeNull(path)
  /\ pathc' = "done"
  /\ UNCHANGED path0

IdleParser == IdleQuery /\ IdleAlias /\ IdleIds /\ IdleNull

-----------------------------------------------------------------------------
(* Vocabulary: the range of ids of a prefix *)

\* The character that ends a prefix word.
PREFIX_CHAR == Ord("*")

\* Id is unsigned: 0 - 1 is the largest Id (2^64 - 1 in the build, this
\* number here), which is the id of no word.
maxId == 2147483647
idMinusOne(id) == IF id = 0 THEN maxId ELSE id - 1

\* PrefixComparator: the case comparator of the vocabulary on at most the
\* first prefixLength characters of both sides.
firstChars(s, prefixLength) == IF Len(s) > prefixLength THEN SubSeq(s, 1, prefixLength) ELSE s
PrefixComparator(prefixLength, lhs, rhs) ==
  StringSortComparator(_ignoreCase, firstChars(lhs, prefixLength), firstChars(rhs, prefixLength))

\* std::upper_bound on words[first + 1 .. first + len] with the prefix
\* comparator: bisection, as the standard library does it.
RECURSIVE upperBoundIn(_, _, _, _, _)
upperBoundIn(words, prefixLength, word, first, len) ==
  IF len <= 0 THEN first
  ELSE IF PrefixComparator(prefixLength, word, words[first + (len \div 2) + 1])
    THEN upperBoundIn(words, prefixLength, word, first, len \div 2)
    ELSE upperBoundIn(words, prefixLength, word, first + (len \div 2) + 1,
                      len - (len \div 2) - 1)

\* Vocabulary::upper_bound(word, first, comp)
upper_bound(word, first, prefixLength) ==
  upperBoundIn(_words, prefixLength, word, first, Len(_words) - first)

\* Vocabulary::getIdRangeForFullTextPrefix, the test of the range.
success(stem, first, last) ==
  /\ first < size /\ startsWith(at(first), stem)
  /\ last < size /\ startsWith(at(last), stem)
  /\ first <= last

\* Vocabulary::getIdRangeForFullTextPrefix from the first id on.
rangeWith(stem, first, last) ==
  [raised |-> FALSE, success |-> success(stem, first, last), _first |-> first, _last |-> last]
rangeFrom(stem, first) ==
  rangeWith(stem, first, idMinusOne(upper_bound(stem, first, Len(stem))))

\* Vocabulary::getIdRangeForFullTextPrefix(word, range): CheckFailed is
\* raised, or the value returned and the range.
getIdRangeForFullTextPrefix(word) ==
  IF word[Len(word)] # PREFIX_CHAR
    THEN [raised |-> TRUE, success |-> FALSE, _first |-> 0, _last |-> 0]
    ELSE rangeFrom(SubSeq(word, 1, Len(word) - 1),
                   lower_bound(SubSeq(word, 1, Len(word) - 1)))

\* The words of a text vocabulary and the prefix words asked for.
bird == Str(<<"b", "i", "r", "d">>)
RangeTerms == {ant, bat, Bee, bee, bird, cat, apple}
Stems == {Str(<<"a">>), Str(<<"b">>), Str(<<"B">>), Str(<<"b", "e">>), Str(<<"b", "i">>),
          Str(<<"b", "e", "e">>), Str(<<"b", "o">>), Str(<<"c", "a", "t", "s">>),
          Str(<<"\"", "a">>), Str(<<"z">>), Str(<<"!">>), <<>>}
PrefixWords == {s \o Str(<<"*">>) : s \in Stems} \cup {bee, Str(<<"b", "*", "e">>)}

NoRange == [made |-> FALSE, word |-> <<>>, raised |-> FALSE, success |-> FALSE,
            _first |-> 0, _last |-> 0]

ranged(word, r) ==
  range' = [made |-> TRUE, word |-> word, raised |-> r.raised, success |-> r.success,
            _first |-> r._first, _last |-> r._last]

\* getIdRangeForFullTextPrefix is called.
DoGetIdRange(word) ==
  /\ range = NoRange
  /\ ranged(word, getIdRangeForFullTextPrefix(word))
  /\ UNCHANGED <<vocabVars, optOut>>

-----------------------------------------------------------------------------
(* Vocabulary: the word of an id, if there is one *)

\* The id that stands for no value: the largest Id less one.
ID_NO_VALUE == maxId - 1

nullopt == [raised |-> FALSE, has |-> FALSE, word |-> <<>>]
optional(word) == [raised |-> FALSE, has |-> TRUE, word |-> word]
CheckFailed == [raised |-> TRUE, has |-> FALSE, word |-> <<>>]

\* Vocabulary::operator[], of the uncompressed vocabulary.
wordOf(id) == IF id < size THEN optional(_words[id + 1]) ELSE nullopt

\* Vocabulary::idToOptionalString, of the compressed vocabulary.
idToOptionalString(id) ==
  IF id < size THEN optional(_words[id + 1])
  ELSE IF id = ID_NO_VALUE THEN nullopt
  ELSE IF id - size < Len(_externalLiterals) THEN optional(_externalLiterals[id - size + 1])
  ELSE CheckFailed

\* The ids asked for: those of the words, a few behind them, and the two
\* largest.
OptIds == 0..(MaxWords + Cardinality(ExternalTerms) + 1) \cup {ID_NO_VALUE, maxId}

NoOpt == [op |-> "none", id |-> 0, raised |-> FALSE, has |-> FALSE, word |-> <<>>]

opted(op, id, r) ==
  optOut' = [op |-> op, id |-> id, raised |-> r.raised, has |-> r.has, word |-> r.word]

\* operator[] is called.
DoWordOf(id) ==
  /\ optOut = NoOpt
  /\ opted("operator[]", id, wordOf(id))
  /\ UNCHANGED <<vocabVars, range>>

\* idToOptionalString is called.
DoIdToOptionalString(id) ==
  /\ optOut = NoOpt
  /\ opted("idToOptionalString", id, idToOptionalString(id))
  /\ UNCHANGED <<vocabVars, range>>

IdleRange == range = NoRange /\ optOut = NoOpt

-----------------------------------------------------------------------------
(* Specifications *)

\* Calls of the comparator on three strings, or std::sort of a collection.
InitCmp ==
  /\ cmpIgnoreCase \in BOOLEAN
  /\ cmpOut = NoCmpOut /\ sortOut = NoSortOut
  /\ \/ /\ cmpA \in CmpTerms /\ cmpB \in CmpTerms /\ cmpC \in CmpTerms
        /\ sortIn = {}
     \/ /\ cmpA = <<>> /\ cmpB = <<>> /\ cmpC = <<>>
        /\ sortIn \in {S \in SUBSET CmpTerms : S # {} /\ Cardinality(S) <= MaxSort}
                        \cup {S4Terms}
  /\ IdleVocab /\ IdleTP /\ IdleBind /\ IdleExpand /\ IdleParser /\ IdleRange

NextCmp ==
  \/ Compare /\ UNCHANGED <<vocabVars, tpVars, bindVars, expandVars, parserVars, rangeVars>>
  \/ SortTerms /\ UNCHANGED <<vocabVars, tpVars, bindVars, expandVars, parserVars, rangeVars>>

SpecCmp == InitCmp /\ [][NextCmp]_vars

\* A vocabulary as it is at query time: read in collation order, then looked
\* into.
InitVocab ==
  /\ _ignoreCase \in BOOLEAN
  /\ \E S \in SUBSET StoredTerms :
       /\ Cardinality(S) <= MaxWords
       /\ _words = sortWith(_ignoreCase, S)
  /\ \E E \in SUBSET ExternalTerms : _externalLiterals = sortWith(FALSE, E)
  /\ inOrder = TRUE
  /\ lookup = NoLookup
  /\ IdleCmp /\ IdleTP /\ IdleBind /\ IdleExpand /\ IdleParser /\ IdleRange

NextVocab ==
  \/ \E w \in LookupWords : DoGetId(w) /\ UNCHANGED <<cmpVars, tpVars, bindVars, expandVars, parserVars, rangeVars>>
  \/ \E w \in LookupWords : DoGetValueIdForLT(w) /\ UNCHANGED <<cmpVars, tpVars, bindVars, expandVars, parserVars, rangeVars>>
  \/ \E w \in LookupWords : DoGetValueIdForLE(w) /\ UNCHANGED <<cmpVars, tpVars, bindVars, expandVars, parserVars, rangeVars>>
  \/ \E w \in LookupWords : DoGetValueIdForGT(w) /\ UNCHANGED <<cmpVars, tpVars, bindVars, expandVars, parserVars, rangeVars>>
  \/ \E w \in LookupWords : DoGetValueIdForGE(w) /\ UNCHANGED <<cmpVars, tpVars, bindVars, expandVars, parserVars, rangeVars>>

SpecVocab == InitVocab /\ [][NextVocab]_vars

\* Building a vocabulary from its construction on.
InitBuild == IdleVocab /\ IdleCmp /\ IdleTP /\ IdleBind /\ IdleExpand /\ IdleParser /\ IdleRange

NextBuild ==
  \/ clear /\ UNCHANGED <<cmpVars, tpVars, bindVars, expandVars, parserVars, rangeVars>>
  \/ \E w \in StoredTerms : push_back(w) /\ UNCHANGED <<cmpVars, tpVars, bindVars, expandVars, parserVars, rangeVars>>
  \/ \E b \in BOOLEAN : setCaseInsensitiveOrdering(b) /\ UNCHANGED <<cmpVars, tpVars, bindVars, expandVars, parserVars, rangeVars>>

SpecBuild == InitBuild /\ [][NextBuild]_vars

-----------------------------------------------------------------------------
(* Range lookups of the vocabulary: C4, C5 *)

InternalIds == 0..(size - 1)
StoredWords == {_words[k] : k \in 1..Len(_words)}
Before(a, b) == StringSortComparator(_ignoreCase, a, b)

\* The ids a scan "i OP bound" selects, and the terms "t OP w" asks for.
IdsSelected(op, bound) ==
  {i \in InternalIds : CASE op = "LT" -> i < bound
                         [] op = "LE" -> i <= bound
                         [] op = "GT" -> i > bound
                         [] op = "GE" -> i >= bound}
TermsAsked(op, w) ==
  {t \in StoredWords : CASE op = "LT" -> Before(t, w)
                         [] op = "LE" -> ~Before(w, t)
                         [] op = "GT" -> Before(w, t)
                         [] op = "GE" -> ~Before(t, w)}

IsRangeLookup == lookup.op \in {"LT", "LE", "GT", "GE"}

\* C4: for every sorted duplicate-free vocabulary, every word w and every op
\* of LT, LE, GT, GE, the terms at the ids i with i OP getValueIdForOP(w) are
\* exactly the stored terms t with t OP w under the active comparator.
C4_RangeLookupExact ==
  IsRangeLookup =>
    {at(i) : i \in IdsSelected(lookup.op, lookup.id)} = TermsAsked(lookup.op, lookup.word)

\* The number of stored words the comparator orders before w: the position
\* std::lower_bound finds in a sorted vocabulary.
WordsBefore(w) == Cardinality({k \in 1..Len(_words) : Before(_words[k], w)})

-----------------------------------------------------------------------------
(* Order of the ids: C6 *)

OrderIdCorrespondence ==
  \A i, j \in InternalIds : (i < j) <=> Before(at(i), at(j))

\* C6 as stated: after any sequence of clear, push_back and
\* setCaseInsensitiveOrdering calls, id(a) < id(b) iff the active comparator
\* orders a before b.
C6_OrderAfterAnyCalls == OrderIdCorrespondence

\* C6 as amended: the order of the ids is the order of the comparator as long
\* as every push_back appended a word the active comparator orders after the
\* last stored word and the collation was changed on an empty vocabulary only.
C6_OrderWhenBuiltInOrder == inOrder => OrderIdCorrespondence

\* Three words were appended in collation order under the case-insensitive
\* comparator.
C6_Witness == inOrder /\ _ignoreCase /\ Len(_words) = MaxPush

-----------------------------------------------------------------------------
(* getId: C7 *)

\* C7: in a sorted vocabulary getId of a word that is not to be externalized
\* succeeds exactly when the word is stored, and then returns the id i with
\* at(i) = word, so getId(at(i)) = i for the internal ids; getId of a word to
\* be externalized returns the external store's id plus the internal size,
\* which is no internal id.
C7_GetId ==
  /\ \A i \in InternalIds :
       ~shouldBeExternalized(at(i)) => getId(at(i)) = [found |-> TRUE, id |-> i]
  /\ lookup.op = "getId" =>
       IF ~shouldBeExternalized(lookup.word)
         THEN /\ lookup.found <=> lookup.word \in StoredWords
              /\ lookup.found => (lookup.id \in InternalIds /\ at(lookup.id) = lookup.word)
         ELSE /\ lookup.id = externalGetId(lookup.word).id + size
              /\ lookup.id \notin InternalIds
              /\ lookup.found <=>
                   \E k \in 1..Len(_externalLiterals) :
                     /\ _externalLiterals[k] = lookup.word
                     /\ lookup.id = size + k - 1

\* An externalized word was found behind a non-empty internal vocabulary
\* sorted without regard to case.
C7_Witness ==
  /\ lookup.op = "getId" /\ lookup.found
  /\ shouldBeExternalized(lookup.word)
  /\ _ignoreCase /\ size >= 2

-----------------------------------------------------------------------------
(* The order of the comparator: C8, C9 *)

\* C8: the case-insensitive comparator is a strict total order on strings:
\* irreflexive, asymmetric, transitive, and total on distinct strings, also
\* for literals without closing quotation mark.
C8_StrictTotalOrder ==
  (cmpIgnoreCase /\ cmpOut.done) =>
    /\ ~cmpOut.aa
    /\ ~(cmpOut.ab /\ cmpOut.ba)
    /\ (cmpOut.ab /\ cmpOut.bc) => cmpOut.ac
    /\ cmpA # cmpB => (cmpOut.ab \/ cmpOut.ba)

isLiteral(a) == startsWith(a, Str(<<"\"">>))

\* a comes before b by lowercased value, then by langtag, then by value.
KeyBefore(a, b) ==
  LET x == extractComparable(a)
      y == extractComparable(b)
      xl == getLowercaseUtf8(x.val)
      yl == getLowercaseUtf8(y.val)
  IN \/ strLess(xl, yl)
     \/ xl = yl /\ strLess(x.langtag, y.langtag)
     \/ xl = yl /\ x.langtag = y.langtag /\ strLess(x.val, y.val)

Sorted == cmpIgnoreCase /\ sortOut.done

\* C9 as stated: with ignore-case collation the sort places the non-literals
\* first, then the literals by lowercased value, langtag and value; S4 sorts
\* to <http://a>, "Apple", "apple"@de, "apple"@en, "banana"@en.
C9_NonLiteralsFirst ==
  Sorted =>
    /\ \A i, j \in 1..Len(sortOut.out) :
         (~isLiteral(sortOut.out[i]) /\ isLiteral(sortOut.out[j])) => i < j
    /\ sortIn = S4Terms => sortOut.out = <<httpA, Apple, appleDe, appleEn, bananaEn>>

\* C9 as amended: with ignore-case collation the sort places the literals,
\* ordered by lowercased value, then langtag, then value, before every
\* non-literal that begins with a byte above the quotation mark (an IRI, a
\* plain word); S4 sorts to "Apple", "apple"@de, "apple"@en, "banana"@en,
\* <http://a>.
C9_LiteralsFirst ==
  Sorted =>
    /\ \A i, j \in 1..Len(sortOut.out) :
         ( /\ isLiteral(sortOut.out[i])
           /\ ~isLiteral(sortOut.out[j])
           /\ sortOut.out[j] # <<>>
           /\ sortOut.out[j][1] > Ord("\"") ) => i < j
    /\ \A i, j \in 1..Len(sortOut.out) :
         (isLiteral(sortOut.out[i]) /\ isLiteral(sortOut.out[j]) /\ i < j)
           => ~KeyBefore(sortOut.out[j], sortOut.out[i])
    /\ {sortOut.out[k] : k \in 1..Len(sortOut.out)} = sortIn
    /\ sortIn = S4Terms => sortOut.out = <<Apple, appleDe, appleEn, bananaEn, httpA>>

\* The terms of S4 have been sorted without regard to case.
C9_Witness == Sorted /\ sortIn = S4Terms

-----------------------------------------------------------------------------
(* The paths of a sub-result: C1, C2 *)

\* A transitive path over a sub-result and bounds, one side possibly bound
\* by the column of a table.  The generated sub-results hold the transpose of
\* each of them, so the columns are taken in both orders for S6 only.
InitTP ==
  /\ \/ /\ sub \in {S \in SUBSET ((1..MaxNode) \X (1..MaxNode)) :
                      Cardinality(S) <= MaxEdges}
        /\ leftSubCol = 0
     \/ sub = S6Sub /\ leftSubCol \in {0, 1}
  /\ rightSubCol = 1 - leftSubCol
  /\ minDist \in 0..MaxDist
  /\ maxDist \in (minDist..MaxDist) \cup {maxSizeT}
  /\ side \in {"none", "left", "right"}
  /\ IF side = "none" THEN sideCol = {}
     ELSE sideCol \in BoundColumns
  /\ tpc = "start" /\ todo = {} /\ seed = 0 /\ depth = 0
  /\ frontier = {} /\ marks = {} /\ res = {} /\ resRows = 0
  /\ IdleCmp /\ IdleVocab /\ IdleBind /\ IdleExpand /\ IdleParser /\ IdleRange

NextTP ==
  \/ TPStart /\ UNCHANGED <<cmpVars, vocabVars, bindVars, expandVars, parserVars, rangeVars>>
  \/ TPNextSeed /\ UNCHANGED <<cmpVars, vocabVars, bindVars, expandVars, parserVars, rangeVars>>
  \/ TPExpand /\ UNCHANGED <<cmpVars, vocabVars, bindVars, expandVars, parserVars, rangeVars>>
  \/ TPSeedDone /\ UNCHANGED <<cmpVars, vocabVars, bindVars, expandVars, parserVars, rangeVars>>
  \/ TPFinish /\ UNCHANGED <<cmpVars, vocabVars, bindVars, expandVars, parserVars, rangeVars>>

SpecTP == InitTP /\ [][NextTP]_vars

\* The ids that occur: as an endpoint of a step or in the bound column.
allNodes == {e[1] : e \in edges} \cup {e[2] : e \in edges} \cup sideCol

\* The pairs joined by a sequence of exactly k steps.
RECURSIVE walks(_)
walks(k) ==
  IF k = 0 THEN {<<x, x>> : x \in allNodes}
  ELSE UNION {{<<p[1], e[2]>> : e \in {f \in edges : f[1] = p[2]}} : p \in walks(k - 1)}

\* The pairs (x, y) joined by a sequence of k steps with minDist <= k <=
\* maxDist, x (y) in the bound column when the left (right) side is bound.  A
\* sequence longer than minDist plus the number of ids repeats an id after
\* its first minDist steps, so a shorter one joins the same pair.
pathPairs ==
  LET n == Cardinality(allNodes)
      top == IF maxDist > minDist + n THEN minDist + n ELSE maxDist
  IN {p \in UNION {walks(k) : k \in minDist..top} :
        /\ side = "left" => p[1] \in sideCol
        /\ side = "right" => p[2] \in sideCol}

\* C1: with both endpoints free the result is, as a set, exactly the pairs
\* (x, y) joined by a path of k steps of sub with minDist <= k <= maxDist;
\* S6 gives its seven pairs.
C1_PathsExact ==
  (tpc = "done" /\ side = "none") =>
    /\ res = pathPairs
    /\ (sub = S6Sub /\ leftSubCol = 0 /\ minDist = 1 /\ maxDist = 2) =>
         res = {<<1, 2>>, <<2, 3>>, <<2, 5>>, <<3, 4>>, <<1, 3>>, <<1, 5>>, <<2, 4>>}

\* The paths of S6 with one or two steps have been computed.
C1_Witness ==
  /\ tpc = "done" /\ side = "none"
  /\ sub = S6Sub /\ leftSubCol = 0 /\ minDist = 1 /\ maxDist = 2
  /\ Cardinality(res) = 7

\* The ids the empty path is valid for.
zeroLengthIds ==
  IF side = "none" THEN {e[1] : e \in edges} \cup {e[2] : e \in edges} ELSE sideCol

\* C2: with minDist = 0 the result holds (x, x) for every x that is an
\* endpoint of sub or, with a bound side, in the bound table's column; so
\* with minDist = 0 the result is non-empty iff there is a seed, and with
\* minDist > 0 and empty sub the result is empty.
C2_ZeroLength ==
  tpc = "done" =>
    /\ minDist = 0 => \A x \in zeroLengthIds : <<x, x>> \in res
    /\ minDist = 0 => (res # {} <=> zeroLengthIds # {})
    /\ (minDist > 0 /\ sub = {}) => res = {}
    /\ (sub = S6Sub /\ leftSubCol = 0 /\ side = "none" /\ minDist = 0 /\ maxDist = 2) =>
         res = {<<1, 2>>, <<2, 3>>, <<2, 5>>, <<3, 4>>, <<1, 3>>, <<1, 5>>, <<2, 4>>}
                 \cup {<<x, x>> : x \in 1..5}

\* The paths of S6 with at most two steps have been computed: 4 and 5, which
\* no step leaves, reach themselves.
C2_Witness ==
  /\ tpc = "done" /\ side = "none"
  /\ sub = S6Sub /\ leftSubCol = 0 /\ minDist = 0 /\ maxDist = 2
  /\ <<4, 4>> \in res /\ <<5, 5>> \in res

-----------------------------------------------------------------------------
(* Binding the sides of a TransitivePath: C3 *)

InitBind == IdleBind /\ IdleCmp /\ IdleVocab /\ IdleTP /\ IdleExpand /\ IdleParser /\ IdleRange

NextBind ==
  \/ \E i \in 1..Len(ops), t \in Trees :
       bindLeftSide(i, t) /\ UNCHANGED <<cmpVars, vocabVars, tpVars, expandVars, parserVars, rangeVars>>
  \/ \E i \in 1..Len(ops), t \in Trees :
       bindRightSide(i, t) /\ UNCHANGED <<cmpVars, vocabVars, tpVars, expandVars, parserVars, rangeVars>>

SpecBind == InitBind /\ [][NextBind]_vars

\* What holds of the operations there are: isBound tells whether a side was
\* bound, no side was bound twice, and a call raised iff its operation was
\* bound already.
BindState ==
  /\ \A i \in 1..Len(ops) :
       /\ isBound(ops[i]) <=> (ops[i].leftBinds + ops[i].rightBinds > 0)
       /\ ops[i].leftBinds <= 1 /\ ops[i].rightBinds <= 1
  /\ bindOut.call # "none" =>
       /\ bindOut.raised <=> isBound(ops[bindOut.on])
       /\ ~bindOut.raised =>
            /\ bindOut.new = Len(ops)
            /\ isBound(ops[bindOut.new])
            /\ ~isBound(ops[bindOut.on])

\* What a call does: the operations there were stay as they were, and a call
\* that does not raise adds one.
BindStep ==
  /\ \A i \in 1..Len(ops) : i <= Len(ops') /\ ops'[i] = ops[i]
  /\ Len(ops') = IF bindOut'.raised THEN Len(ops) ELSE Len(ops) + 1

-----------------------------------------------------------------------------
(* Expansion of a prefixed name: C10 *)

InitExpand ==
  /\ _prefixes \in PrefixLists
  /\ item0 \in Items
  /\ item = item0
  /\ expandOut = NoExpandOut
  /\ IdleCmp /\ IdleVocab /\ IdleTP /\ IdleBind /\ IdleParser /\ IdleRange

NextExpand ==
  \/ ExpandItem /\ UNCHANGED <<cmpVars, vocabVars, tpVars, bindVars, parserVars, rangeVars>>

SpecExpand == InitExpand /\ [][NextExpand]_vars

\* A term of the form prefix:local or without ':' that is neither a variable
\* nor an IRI, carries no language tag in front and no datatype marker.
plainTerm(t) ==
  /\ ~startsWith(t, Str(<<"?">>))
  /\ ~startsWith(t, Str(<<"<">>))
  /\ ~startsWith(t, Str(<<"@">>))
  /\ find(t, Str(<<"^", "^">>), 0) = npos

\* The last declaration of a prefix name, if there is one.
declared(name) == {k \in 1..Len(_prefixes) : _prefixes[k]._prefix = name}
lastDeclared(name) ==
  _prefixes[CHOOSE k \in declared(name) : \A j \in declared(name) : j <= k]._uri

\* C10: expandPrefix turns a term prefix:local that begins with neither '?'
\* nor '<' (a plain prefixed name: no language tag in front, no datatype
\* marker) into <Ulocal> when the prefix is in the map with IRI <U>: the IRI
\* without its last '>', the local part, a closing '>'; so foaf:knows becomes
\* <http://xmlns.com/foaf/0.1/knows>.  With a prefix that is not in the map,
\* or without ':', the term stays as it is.
C10_ExpandPrefixedName ==
  (expandOut.done /\ plainTerm(item0)) =>
    LET colons == {k \in 1..Len(item0) : item0[k] = Ord(":")}
        c == CHOOSE k \in colons : \A j \in colons : k <= j
        name == SubSeq(item0, 1, c - 1)
        local == SubSeq(item0, c + 1, Len(item0))
        uri == IF name = ql /\ declared(name) = {} THEN qlUri ELSE lastDeclared(name)
    IN /\ ~expandOut.raised
       /\ IF colons # {} /\ (declared(name) # {} \/ name = ql)
            THEN /\ uri[Len(uri)] = Ord(">")
                 /\ item = SubSeq(uri, 1, Len(uri) - 1) \o local \o <<Ord(">")>>
            ELSE item = item0
       /\ (item0 = foaf \o Str(<<":", "k", "n", "o", "w", "s">>)
             /\ _prefixes = <<[_prefix |-> foaf, _uri |-> foafUri]>>)
            => item = Str(<<"<", "h", "t", "t", "p", ":", "/", "/", "x", "m", "l",
                            "n", "s", ".", "c", "o", "m", "/", "f", "o", "a", "f",
                            "/", "0", ".", "1", "/", "k", "n", "o", "w", "s", ">">>)

\* Scenario S1: foaf:knows was expanded with foaf declared.
C10_Witness ==
  /\ expandOut.done
  /\ item0 = foaf \o Str(<<":", "k", "n", "o", "w", "s">>)
  /\ _prefixes = <<[_prefix |-> foaf, _uri |-> foafUri]>>
  /\ item # item0

-----------------------------------------------------------------------------
(* Expansion behind a datatype marker and a language tag: C11, C12 *)

\* The IRI a prefix name stands for in the prefix map.
uriOf(name) == IF declared(name) # {} THEN lastDeclared(name) ELSE qlUri
inMap(name) == declared(name) # {} \/ name = ql

\* C11: for a term (neither variable, IRI nor language-tagged) with a
\* datatype marker '^^' followed by prefix:local, the prefix in the map,
\* whatever stands before the marker, expandPrefix replaces prefix:local by
\* the absolute IRI and keeps the bytes up to and including the marker.
C11_DatatypePrefix ==
  (/\ expandOut.done
   /\ ~startsWith(item0, Str(<<"?">>))
   /\ ~startsWith(item0, Str(<<"<">>))
   /\ ~startsWith(item0, Str(<<"@">>))
   /\ find(item0, Str(<<"^", "^">>), 0) # npos) =>
    LET m == find(item0, Str(<<"^", "^">>), 0)
        rest == substrFrom(item0, m + 2)
        c == find(rest, Str(<<":">>), 0)
        name == substr(rest, 0, c)
        uri == uriOf(name)
    IN (c # npos /\ inMap(name)) =>
         item = substr(item0, 0, m + 2) \o SubSeq(uri, 1, Len(uri) - 1)
                  \o substrFrom(rest, c + 1) \o <<Ord(">")>>

\* The form of a predicate tagged with a language.
tagged(lang, pred) == <<Ord("@")>> \o lang \o <<Ord("@")>> \o pred

\* C12: on a term that begins with '@', expandPrefix raises ParseException
\* and leaves the term as it is when there is no second '@'; otherwise the
\* text between the two '@' is the langtag, the remainder is expanded as a
\* term of its own, and the result is the language-tagged predicate of that
\* langtag; @en@rdfs:label becomes the form tagged en of
\* <http://www.w3.org/2000/01/rdf-schema#label>.
C12_LangtaggedPredicate ==
  (expandOut.done /\ startsWith(item0, Str(<<"@">>))) =>
    LET ats == {k \in 2..Len(item0) : item0[k] = Ord("@")}
        second == CHOOSE k \in ats : \A j \in ats : k <= j
        lang == SubSeq(item0, 2, second - 1)
        rest == SubSeq(item0, second + 1, Len(item0))
    IN /\ expandOut.raised <=> ats = {}
       /\ ats = {} => item = item0
       /\ ats # {} => item = tagged(lang, expandPrefix(rest, prefixMap).item)
       /\ (item0 = Str(<<"@", "e", "n", "@">>) \o rdfs \o Str(<<":", "l", "a", "b", "e", "l">>)
             /\ declared(rdfs) # {})
            => item = tagged(Str(<<"e", "n">>),
                             SubSeq(rdfsUri, 1, Len(rdfsUri) - 1)
                               \o Str(<<"l", "a", "b", "e", "l", ">">>))

\* Scenario S2: @en@rdfs:label was expanded with rdfs declared.
C12_Witness ==
  /\ expandOut.done /\ ~expandOut.raised
  /\ item0 = Str(<<"@", "e", "n", "@">>) \o rdfs \o Str(<<":", "l", "a", "b", "e", "l">>)
  /\ declared(rdfs) # {}
  /\ item # item0

-----------------------------------------------------------------------------
(* Expansion of all prefixes of a query: C13, C14 *)

InitPrefixes ==
  /\ queryInputs
  /\ queries0 = queries /\ patterns0 = patterns
  /\ frames = <<>> /\ epc = "idle"
  /\ visits = [g \in DOMAIN patterns |-> 0]
  /\ IdleCmp /\ IdleVocab /\ IdleTP /\ IdleBind /\ IdleExpand /\ IdleAlias /\ IdleIds /\ IdleNull /\ IdleRange

NextPrefixes ==
  \/ EPCall /\ UNCHANGED <<cmpVars, vocabVars, tpVars, bindVars, expandVars, aliasVars, idVars, nullVars, rangeVars>>
  \/ EPPop /\ UNCHANGED <<cmpVars, vocabVars, tpVars, bindVars, expandVars, aliasVars, idVars, nullVars, rangeVars>>
  \/ EPChildSubquery /\ UNCHANGED <<cmpVars, vocabVars, tpVars, bindVars, expandVars, aliasVars, idVars, nullVars, rangeVars>>
  \/ EPChildPatterns /\ UNCHANGED <<cmpVars, vocabVars, tpVars, bindVars, expandVars, aliasVars, idVars, nullVars, rangeVars>>
  \/ EPChildTransPath /\ UNCHANGED <<cmpVars, vocabVars, tpVars, bindVars, expandVars, aliasVars, idVars, nullVars, rangeVars>>
  \/ EPTriples /\ UNCHANGED <<cmpVars, vocabVars, tpVars, bindVars, expandVars, aliasVars, idVars, nullVars, rangeVars>>
  \/ EPReturn /\ UNCHANGED <<cmpVars, vocabVars, tpVars, bindVars, expandVars, aliasVars, idVars, nullVars, rangeVars>>

SpecPrefixes == InitPrefixes /\ [][NextPrefixes]_vars

\* The patterns joined to pattern set S by OPTIONAL and UNION operations.
RECURSIVE under(_)
under(S) ==
  LET T == S \cup UNION {{op._childGraphPatterns[k] : k \in DOMAIN op._childGraphPatterns} :
                          op \in UNION {{patterns0[g]._children[k] :
                                           k \in DOMAIN patterns0[g]._children} : g \in S}}
  IN IF T = S THEN S ELSE under(T)

\* The patterns of query q itself.
ownPatterns(q) == under({queries0[q]._rootGraphPattern})

\* C13: when expandPrefixes has returned, every sub-select, at any depth,
\* has the prefix list the outer query had, whatever list it had before; the
\* triples and filters of its own patterns are expanded under that list; the
\* prefix list of the outer query is as it was.
C13_SubselectInherits ==
  epc = "done" =>
    /\ queries[1] = queries0[1]
    /\ \A q \in DOMAIN queries :
         /\ queries[q]._prefixes = queries0[1]._prefixes
         /\ queries[q]._rootGraphPattern = queries0[q]._rootGraphPattern
         /\ q # 1 =>
              \A g \in ownPatterns(q) :
                /\ patterns[g]._whereClauseTriples =
                     expandTriples(patterns0[g]._whereClauseTriples, 1,
                                   mapOf(queries0[1]._prefixes)).list
                /\ patterns[g]._filters =
                     expandFilters(patterns0[g]._filters, 1,
                                   mapOf(queries0[1]._prefixes)).list

\* A sub-select within a sub-select that declared another IRI for foaf has
\* got the prefixes of the outer query, and its triple is expanded.
C13_Witness ==
  /\ epc = "done"
  /\ Len(queries) = 3
  /\ queries0[3]._prefixes # queries0[1]._prefixes
  /\ queries0[1]._prefixes # <<>>
  /\ queries[3]._prefixes = queries0[1]._prefixes
  /\ patterns[queries[3]._rootGraphPattern] # patterns0[queries[3]._rootGraphPattern]
  /\ \E k \in DOMAIN patterns[3]._children : patterns[3]._children[k]._type = "SUBQUERY"

\* The parts of a string between its spaces, in order.
tokensOf(o) ==
  LET spaces == {k \in 1..Len(o) : o[k] = Ord(" ")}
      ends == spaces \cup {Len(o) + 1}
      nth(i) == CHOOSE e \in ends : Cardinality({f \in ends : f < e}) = i - 1
  IN [i \in 1..Cardinality(ends) |->
        SubSeq(o, (IF i = 1 THEN 0 ELSE nth(i - 1)) + 1, nth(i) - 1)]

\* Strings joined by single spaces.
RECURSIVE joined(_)
joined(ss) ==
  IF ss = <<>> THEN <<>>
  ELSE IF Len(ss) = 1 THEN ss[1]
  ELSE ss[1] \o <<Ord(" ")>> \o joined(Tail(ss))

\* The text holds in-context.
holdsInContext(t) ==
  \E k \in 1..(Len(t) - 9) : SubSeq(t, k, k + 9) = Str(<<"i", "n", "-", "c", "o", "n", "t", "e", "x", "t">>)

\* C14: when expandPrefixes has returned, the object of a triple whose
\* expanded predicate is an IRI leaf holding in-context is its tokens
\* between spaces, each expanded on its own, in their order, joined by single
\* spaces; the object of any other triple is expanded as one term.
C14_InContextObject ==
  epc = "done" =>
    \A g \in DOMAIN patterns : visits[g] > 0 =>
      \A k \in DOMAIN patterns[g]._whereClauseTriples :
        LET t == patterns[g]._whereClauseTriples[k]
            o0 == patterns0[g]._whereClauseTriples[k]._o
            map == mapOf(queries0[1]._prefixes)
        IN IF t._p._operation = "IRI" /\ holdsInContext(t._p._iri)
             THEN t._o = IF o0 = <<>> THEN <<>>
                         ELSE joined([i \in DOMAIN tokensOf(o0) |->
                                        expandPrefix(tokensOf(o0)[i], map).item])
             ELSE t._o = expandPrefix(o0, map).item

\* The object foaf:a rdfs:b of a predicate ql:in-context was expanded token
\* by token.
C14_Witness ==
  /\ epc = "done"
  /\ \E g \in DOMAIN patterns : \E k \in DOMAIN patterns[g]._whereClauseTriples :
       /\ patterns0[g]._whereClauseTriples[k]._p = Iri(qlInContext)
       /\ patterns0[g]._whereClauseTriples[k]._o = foafAspaceRdfsB
       /\ patterns[g]._whereClauseTriples[k]._o =
            Str(<<"<", "h", "t", "t", "p", ":", "/", "/", "x", "m", "l", "n", "s", ".",
                  "c", "o", "m", "/", "f", "o", "a", "f", "/", "0", ".", "1", "/", "a", ">",
                  " ">>) \o SubSeq(rdfsUri, 1, Len(rdfsUri) - 1) \o Str(<<"b", ">">>)

-----------------------------------------------------------------------------
(* Aliases: C15, C16, C17 *)

InitAlias ==
  /\ _selectedVariables \in Projections
  /\ _orderBy \in Orders
  /\ selected0 = _selectedVariables /\ orderBy0 = _orderBy
  /\ _aliases = <<>>
  /\ paI = 1 /\ paJ = 1 /\ paRaised = FALSE /\ lastAlias = NoAlias
  /\ IdleCmp /\ IdleVocab /\ IdleTP /\ IdleBind /\ IdleExpand /\ IdleQuery /\ IdleIds /\ IdleNull /\ IdleRange

NextAlias ==
  \/ PASelectedAlias /\ UNCHANGED <<cmpVars, vocabVars, tpVars, bindVars, expandVars, queryVars, idVars, nullVars, rangeVars>>
  \/ PASelectedVariable /\ UNCHANGED <<cmpVars, vocabVars, tpVars, bindVars, expandVars, queryVars, idVars, nullVars, rangeVars>>
  \/ PAOrderAlias /\ UNCHANGED <<cmpVars, vocabVars, tpVars, bindVars, expandVars, queryVars, idVars, nullVars, rangeVars>>
  \/ PAOrderKey /\ UNCHANGED <<cmpVars, vocabVars, tpVars, bindVars, expandVars, queryVars, idVars, nullVars, rangeVars>>

SpecAlias == InitAlias /\ [][NextAlias]_vars

\* The output name an alias text gives: the trimmed text behind its first as.
outOf(text) ==
  strip(substrFrom(text, find(getLowercaseUtf8(text), Str(<<" ", "a", "s", " ">>), 0) + 3))
hasAs(text) == find(getLowercaseUtf8(text), Str(<<" ", "a", "s", " ">>), 0) # npos
hasHead(text) ==
  \E h \in aggregateHeads :
    /\ Len(text) >= Len(h)
    /\ getLowercaseUtf8(SubSeq(text, 1, Len(h))) = h
bindingOf(aliases, out) == {k \in 1..Len(aliases) : aliases[k]._outVarName = out}
\* The entry the last call of parseAlias came from.
entryOfLastAlias ==
  IF lastAlias.loop = "selected" THEN _selectedVariables[lastAlias.index]
  ELSE _orderBy[lastAlias.index]._key

\* The alias HEAD(X) as ?out or HEAD(DISTINCT X) as ?out, with lead before X
\* and trail behind it, is recorded with X, ?out and its own text, and ?out
\* takes the place of the entry.
recordedAs(head, lead, in, trail, out) ==
  (/\ lastAlias.made
   /\ lastAlias.alias = aliasText(head, lead, in, trail, out)
   /\ bindingOf(lastAlias.before, outOf(out)) = {})
  => (/\ ~lastAlias.raised
      /\ lastAlias.newVarName = outOf(out)
      /\ _aliases = Append(lastAlias.before,
                           [_isAggregate |-> TRUE, _outVarName |-> outOf(out),
                            _function |-> aliasText(head, lead, in, trail, out),
                            _inVarName |-> in])
      /\ entryOfLastAlias = outOf(out))

\* C15: an alias of the shape HEAD(X) as ?out or HEAD(DISTINCT X) as ?out,
\* whatever space surrounds X inside the brackets, is recorded with input
\* variable X, output variable the trimmed text behind as, function the alias
\* text and the aggregate flag; ?out is returned and replaces the entry.
C15_AliasRecorded ==
  \A h \in AliasHeads, l \in AliasLead, i \in AliasInputs, t \in AliasTrail, o \in AliasOutputs :
    recordedAs(h, l, i, t, o)

\* C16: no two recorded aliases bind the same output variable; a call whose
\* output variable is bound already leaves the list as it is, and succeeds
\* exactly when flag and function text are those of the recorded alias.
C16_OneAliasPerOutput ==
  /\ \A j, k \in 1..Len(_aliases) :
       _aliases[j]._outVarName = _aliases[k]._outVarName => j = k
  /\ (/\ lastAlias.made /\ hasHead(lastAlias.alias) /\ hasAs(lastAlias.alias)
      /\ bindingOf(lastAlias.before, outOf(lastAlias.alias)) # {})
     => /\ _aliases = lastAlias.before
        /\ ~lastAlias.raised <=>
             \A k \in bindingOf(lastAlias.before, outOf(lastAlias.alias)) :
               /\ lastAlias.before[k]._isAggregate
               /\ lastAlias.before[k]._function = lastAlias.alias

\* A projection with the same alias twice was taken, the second call leaving
\* the one alias, and then a key of the order with its output variable and
\* another text was refused.
C16_Witness ==
  /\ lastAlias.made /\ lastAlias.raised
  /\ Len(lastAlias.before) = 1
  /\ lastAlias.before[1]._outVarName = outOf(lastAlias.alias)
  /\ Len(selected0) = 2 /\ selected0[1] = selected0[2]
  /\ paJ = 3

\* C17: parseAlias raises for a text without one of the nine heads, whatever
\* the case of the letters, and for a text with a head and no as between
\* spaces; it accepts a text only when it has both.
C17_HeadAndAs ==
  lastAlias.made =>
    /\ ~hasHead(lastAlias.alias) => lastAlias.raised
    /\ (hasHead(lastAlias.alias) /\ ~hasAs(lastAlias.alias)) => lastAlias.raised
    /\ ~lastAlias.raised => (hasHead(lastAlias.alias) /\ hasAs(lastAlias.alias))

\* A text with a head in capitals and no as was refused.
C17_Witness ==
  /\ lastAlias.made /\ lastAlias.raised
  /\ lastAlias.alias = Str(<<"C", "O", "U", "N", "T", "(", "?", "x", ")">>)

-----------------------------------------------------------------------------
(* The ids of the patterns: C18 *)

InitIds ==
  /\ \E shape \in IdShapes, stale \in StaleIds :
       /\ queries = [q \in 1..Len(shape.roots) |->
                       [_prefixes |-> <<>>, _rootGraphPattern |-> shape.roots[q]]]
       /\ patterns = [h \in 1..Len(shape.pats) |-> [shape.pats[h] EXCEPT !._id = stale[h]]]
  /\ queries0 = queries /\ patterns0 = patterns
  /\ frames = <<>> /\ epc = "idle" /\ visits = <<>>
  /\ IdleIds
  /\ IdleCmp /\ IdleVocab /\ IdleTP /\ IdleBind /\ IdleExpand /\ IdleAlias /\ IdleNull /\ IdleRange

NextIds ==
  \/ RICall /\ UNCHANGED <<cmpVars, vocabVars, tpVars, bindVars, expandVars, aliasVars, nullVars, rangeVars>>
  \/ RIChildPatterns /\ UNCHANGED <<cmpVars, vocabVars, tpVars, bindVars, expandVars, aliasVars, nullVars, rangeVars>>
  \/ RIChildPatternsDone /\ UNCHANGED <<cmpVars, vocabVars, tpVars, bindVars, expandVars, aliasVars, nullVars, rangeVars>>
  \/ RIChildTransPath /\ UNCHANGED <<cmpVars, vocabVars, tpVars, bindVars, expandVars, aliasVars, nullVars, rangeVars>>
  \/ RIChildSubquery /\ UNCHANGED <<cmpVars, vocabVars, tpVars, bindVars, expandVars, aliasVars, nullVars, rangeVars>>
  \/ RIReturn /\ UNCHANGED <<cmpVars, vocabVars, tpVars, bindVars, expandVars, aliasVars, nullVars, rangeVars>>

SpecIds == InitIds /\ [][NextIds]_vars

\* The patterns right below pattern g, in the order of the walk: those of
\* its OPTIONAL and UNION operations and the patterns of its paths; those of
\* sub-selects are not among them.
belowOp(op) ==
  IF op._type \in {"OPTIONAL", "UNION"} THEN op._childGraphPatterns
  ELSE IF op._type = "TRANS_PATH" /\ op._childGraphPattern # 0 THEN <<op._childGraphPattern>>
  ELSE <<>>
RECURSIVE belowOps(_, _)
belowOps(children, k) ==
  IF k > Len(children) THEN <<>> ELSE belowOp(children[k]) \o belowOps(children, k + 1)
\* The patterns of the tree of g in pre-order.
RECURSIVE preorder(_)
RECURSIVE preorderAll(_, _)
preorder(g) == <<g>> \o preorderAll(belowOps(patterns0[g]._children, 1), 1)
preorderAll(gs, k) == IF k > Len(gs) THEN <<>> ELSE preorder(gs[k]) \o preorderAll(gs, k + 1)
treeOf(g) == {preorder(g)[k] : k \in 1..Len(preorder(g))}

\* C18: recomputeIds numbers the patterns of the tree in one pre-order walk
\* from 0: the root gets 0, the ids are distinct and are 0..n-1, the id of a
\* pattern is smaller than those of the patterns below it, the patterns of
\* sub-selects keep their ids, and the ids depend on the shape of the tree
\* only.
C18_PreorderIds ==
  ridc = "done" =>
    /\ patterns[ridRoot]._id = 0
    /\ \A k \in 1..Len(preorder(ridRoot)) : patterns[preorder(ridRoot)[k]]._id = k - 1
    /\ \A j, k \in 1..Len(preorder(ridRoot)) :
         preorder(ridRoot)[j] = preorder(ridRoot)[k] => j = k
    /\ {patterns[g]._id : g \in treeOf(ridRoot)} = 0..(Cardinality(treeOf(ridRoot)) - 1)
    /\ id_count = Cardinality(treeOf(ridRoot))
    /\ \A g \in treeOf(ridRoot) : \A d \in treeOf(g) \ {g} : patterns[g]._id < patterns[d]._id
    /\ \A g \in DOMAIN patterns \ treeOf(ridRoot) : patterns[g] = patterns0[g]
    /\ \A g \in DOMAIN patterns : [patterns[g] EXCEPT !._id = 0] = [patterns0[g] EXCEPT !._id = 0]

\* The walk is over for a tree with a union, an optional pattern, a path
\* with a pattern and a sub-select, whose patterns held other ids.
C18_Witness ==
  /\ ridc = "done" /\ ridRoot = 3 /\ Len(patterns) = 7
  /\ patterns0[3]._id = 4
  /\ <<patterns[3]._id, patterns[4]._id, patterns[5]._id>> = <<0, 1, 2>>

-----------------------------------------------------------------------------
(* Paths that can be empty: C19 *)

InitNull ==
  /\ path \in NullPaths /\ path0 = path /\ pathc = "idle"
  /\ IdleCmp /\ IdleVocab /\ IdleTP /\ IdleBind /\ IdleExpand
  /\ IdleQuery /\ IdleAlias /\ IdleIds /\ IdleRange

NextNull ==
  ComputeCanBeNull
    /\ UNCHANGED <<cmpVars, vocabVars, tpVars, bindVars, expandVars, queryVars, aliasVars, idVars, rangeVars>>

SpecNull == InitNull /\ [][NextNull]_vars

\* The flag of every node of p is what the rule gives, and p is q but for
\* the flags.
RECURSIVE flagged(_, _)
flagged(p, q) ==
  /\ p._can_be_null <=>
       \/ p._operation = "TRANSITIVE"
       \/ p._operation = "TRANSITIVE_MAX"
       \/ (p._operation = "TRANSITIVE_MIN" /\ p._limit = 0)
       \/ (Len(p._children) >= 1 /\ \A k \in 1..Len(p._children) : p._children[k]._can_be_null)
  /\ p._operation = "IRI" => ~p._can_be_null
  /\ p._operation = q._operation /\ p._iri = q._iri /\ p._limit = q._limit
  /\ Len(p._children) = Len(q._children)
  /\ \A k \in 1..Len(p._children) : flagged(p._children[k], q._children[k])

\* C19: after computeCanBeNull a node can be empty exactly when it is
\* TRANSITIVE, TRANSITIVE_MAX, TRANSITIVE_MIN with limit 0, or has a child
\* and all its children can be empty; an IRI leaf cannot; this holds for
\* every node below, whatever the flags were before.
C19_CanBeNull == pathc = "done" => flagged(path, path0)

\* Done for a sequence of a path of at least one step and one of any number
\* of steps over a leaf, whose flags were all set before: only the second
\* can be empty.
C19_Witness ==
  /\ pathc = "done"
  /\ path0 = staleFlags(PathOp("SEQUENCE", 1, <<PathOp("TRANSITIVE_MIN", 1, <<iriB>>),
                                           PathOp("TRANSITIVE", 0, <<iriB>>)>>), TRUE)
  /\ ~path._can_be_null
  /\ ~path._children[1]._can_be_null /\ path._children[2]._can_be_null

-----------------------------------------------------------------------------
(* The range of ids of a prefix: C20 *)

\* A text vocabulary as it is at query time, in collation order.
InitRange ==
  /\ _ignoreCase \in BOOLEAN
  /\ \E S \in SUBSET RangeTerms :
       /\ Cardinality(S) <= MaxWords
       /\ _words = sortWith(_ignoreCase, S)
  /\ _externalLiterals = <<>>
  /\ inOrder = TRUE
  /\ lookup = NoLookup
  /\ IdleRange
  /\ IdleCmp /\ IdleTP /\ IdleBind /\ IdleExpand /\ IdleParser

NextRange ==
  \E w \in PrefixWords :
    DoGetIdRange(w) /\ UNCHANGED <<cmpVars, tpVars, bindVars, expandVars, parserVars>>

SpecRange == InitRange /\ [][NextRange]_vars

stemOf(word) == SubSeq(word, 1, Len(word) - 1)
beginsWith(id, s) == Len(at(id)) >= Len(s) /\ SubSeq(at(id), 1, Len(s)) = s
validId(id) == id >= 0 /\ id < size

\* What the claim says of a call with a word that ends in PREFIX_CHAR.
rangeOfStem(s) ==
  /\ ~range.raised
  /\ range.success <=>
       /\ validId(range._first) /\ validId(range._last)
       /\ range._first <= range._last
       /\ beginsWith(range._first, s) /\ beginsWith(range._last, s)
  /\ range._first = lower_bound(s)
  /\ range._last = idMinusOne(upper_bound(s, range._first, Len(s)))
  /\ range.success =>
       \A id \in 0..(size - 1) :
         (range._first <= id /\ id <= range._last) <=> beginsWith(id, s)

\* C20: for a sorted vocabulary and a word that ends in PREFIX_CHAR, with
\* stem s, getIdRangeForFullTextPrefix returns true exactly when first =
\* lower_bound(s) and last = the prefix upper bound of s less one are ids of
\* words, first <= last, and the words at first and last begin with s; then
\* the words that begin with s are those of the ids from first to last. A
\* word that does not end in PREFIX_CHAR raises CheckFailed.
C20_PrefixRange ==
  range.made =>
    IF range.word[Len(range.word)] = PREFIX_CHAR
      THEN rangeOfStem(stemOf(range.word))
      ELSE range.raised

-----------------------------------------------------------------------------
(* Lookups that miss: C21 *)

\* A vocabulary as it is at query time, and one lookup.
InitLookup ==
  /\ _ignoreCase \in BOOLEAN
  /\ \E S \in SUBSET StoredTerms :
       /\ Cardinality(S) <= MaxWords
       /\ _words = sortWith(_ignoreCase, S)
  /\ \E E \in SUBSET ExternalTerms : _externalLiterals = sortWith(FALSE, E)
  /\ inOrder = TRUE
  /\ lookup = NoLookup
  /\ IdleRange
  /\ IdleCmp /\ IdleTP /\ IdleBind /\ IdleExpand /\ IdleParser

noCallYet == lookup = NoLookup /\ range = NoRange /\ optOut = NoOpt

NextLookup ==
  \/ \E w \in LookupWords : noCallYet /\ DoGetId(w) /\ UNCHANGED rangeVars /\ UNCHANGED <<cmpVars, tpVars, bindVars, expandVars, parserVars>>
  \/ \E w \in PrefixWords : noCallYet /\ DoGetIdRange(w) /\ UNCHANGED <<cmpVars, tpVars, bindVars, expandVars, parserVars>>
  \/ \E id \in OptIds : noCallYet /\ DoWordOf(id) /\ UNCHANGED <<cmpVars, tpVars, bindVars, expandVars, parserVars>>
  \/ \E id \in OptIds : noCallYet /\ DoIdToOptionalString(id) /\ UNCHANGED <<cmpVars, tpVars, bindVars, expandVars, parserVars>>

SpecLookup == InitLookup /\ [][NextLookup]_vars

stored(w) ==
  \/ \E k \in 1..Len(_words) : _words[k] = w
  \/ \E k \in 1..Len(_externalLiterals) : _externalLiterals[k] = w
namesNoWord(id) == id >= Len(_words) + Len(_externalLiterals)

\* C21: no lookup raises on a miss: getId of a word that is not stored
\* returns false; operator[] and idToOptionalString of an id that names no
\* word, ID_NO_VALUE or any other id from the internal plus the external
\* size on, return an empty optional; getIdRangeForFullTextPrefix of a stem
\* no word begins with returns false, on the empty vocabulary too; nothing
\* is raised.
C21_NoRaiseOnMiss ==
  /\ (lookup.op = "getId" /\ ~stored(lookup.word)) => ~lookup.found
  /\ (optOut.op # "none" /\ namesNoWord(optOut.id)) => (~optOut.raised /\ ~optOut.has)
  /\ (/\ range.made /\ range.word[Len(range.word)] = PREFIX_CHAR
      /\ \A id \in 0..(size - 1) : ~beginsWith(id, stemOf(range.word)))
     => (~range.raised /\ ~range.success)

-----------------------------------------------------------------------------
(* The prefix ql: C22 *)

qlKnows == ql \o Str(<<":", "k", "n", "o", "w", "s">>)
qlFunctionKnows ==
  Str(<<"<", "Q", "L", "e", "v", "e", "r", "-", "i", "n", "t", "e", "r", "n", "a", "l", "-",
        "f", "u", "n", "c", "t", "i", "o", "n", "/", "k", "n", "o", "w", "s", ">">>)

\* The entry of ql is the reserved one and ql:knows expands with it.
qlReserved ==
  /\ ql \in DOMAIN prefixMap /\ prefixMap[ql] = qlUri
  /\ (expandOut.done /\ item0 = qlKnows) => item = qlFunctionKnows

\* The entry of ql changes the expansion of no declared prefix.
declaredKept ==
  \A k \in 1..Len(_prefixes) :
    /\ _prefixes[k]._prefix \in DOMAIN prefixMap
    /\ prefixMap[_prefixes[k]._prefix] = lastDeclared(_prefixes[k]._prefix)

\* C22 as stated: whatever prefixes are declared, the map holds ql ->
\* <QLever-internal-function/>, ql:local expands to
\* <QLever-internal-function/local>, and no declared prefix expands
\* otherwise than it would without the entry.
C22_QlAlways == qlReserved /\ declaredKept

\* C22, amended: the map holds ql -> <QLever-internal-function/> and
\* ql:local expands to <QLever-internal-function/local> when the query does
\* not declare ql itself; every declared prefix, ql too, maps to the IRI of
\* its last declaration.
C22_QlUnlessDeclared ==
  /\ declared(ql) = {} => qlReserved
  /\ declaredKept

\* ql:knows was expanded by a query that declares foaf and rdfs only.
C22_Witness ==
  /\ expandOut.done /\ item0 = qlKnows /\ item = qlFunctionKnows
  /\ Len(_prefixes) = 2 /\ declared(ql) = {}

-----------------------------------------------------------------------------
(* The expansion of the frontier ends: C23 *)

\* The computation is not left half-way: a step that can be taken is taken.
SpecTPLive == SpecTP /\ WF_vars(NextTP)

\* C23: the expansion of the frontier ends for every finite sub-result, with
\* cycles and self-loops and with the largest maxDist, as the targets
\* visited are kept for each seed; at the end every pair of a seed and a
\* target was emitted at most once, and every pair joined by a path of
\* minDist to maxDist steps is in the result, also a target that minDist > 1
\* lets be reached first in fewer steps.
C23_Terminates ==
  /\ <>(tpc = "done")
  /\ [](tpc = "done" => (resRows = Cardinality(res) /\ pathPairs \subseteq res))

\* Done with the largest maxDist over a cycle through 1 and 2 and a loop at
\* 3, where 2 is reached from 1 in one step and emitted after three.
C23_Witness ==
  /\ tpc = "done" /\ maxDist = maxSizeT /\ minDist = MaxDist
  /\ {<<1, 2>>, <<2, 1>>, <<3, 3>>} \subseteq edges
  /\ side = "none"
  /\ <<1, 2>> \in res /\ <<3, 3>> \in res

-----------------------------------------------------------------------------
(* Every pattern is expanded once: C24 *)

\* The patterns and the prefix maps the loops over triples and filters
\* meet, and expandPattern as a function on them: the value for a pattern and
\* a map is worked out once.
PatternsTried ==
  UNION {{[shape.pats[h] EXCEPT !._whereClauseTriples = c.triples, !._filters = c.filters] :
            h \in 1..Len(shape.pats),
            c \in PatternContents \cup {[triples |-> <<plainTriple>>,
                                         filters |-> <<plainFilter>>]}} :
          shape \in QueryShapes}
MapsTried == {mapOf(l) : l \in PrefixLists \cup SubPrefixLists}
expandPatternOf == [pat \in PatternsTried, map \in MapsTried |-> expandPattern(pat, map)]

\* EPTriples, with the outcome of the loops read from expandPatternOf.
EPTriplesOf ==
  /\ epc = "running" /\ frame.pattern # 0
  /\ frame.child > Len(patterns[frame.pattern]._children)
  /\ EPTriplesWith(expandPatternOf[patterns[frame.pattern], frame.prefixMap])

\* A step of expandPrefixes: the steps of NextPrefixes.
EPStep ==
  /\ \/ EPCall \/ EPPop \/ EPChildSubquery \/ EPChildPatterns \/ EPChildTransPath
     \/ EPTriplesOf \/ EPReturn
  /\ UNCHANGED <<cmpVars, vocabVars, tpVars, bindVars, expandVars, aliasVars, idVars,
                 nullVars, rangeVars>>

\* expandPrefixes runs in one thread and is not left half-way: a step that
\* can be taken is taken.
SpecPrefixesLive == SpecPrefixes /\ WF_vars(EPStep)

\* The patterns joined to pattern set S by OPTIONAL, UNION and TRANS_PATH
\* operations.
RECURSIVE nested(_)
nested(S) ==
  LET opsOf == UNION {{patterns0[g]._children[k] : k \in DOMAIN patterns0[g]._children} :
                        g \in S}
      T == S \cup UNION {{op._childGraphPatterns[k] : k \in DOMAIN op._childGraphPatterns} :
                           op \in opsOf}
             \cup {op._childGraphPattern :
                     op \in {o \in opsOf : o._type = "TRANS_PATH" /\ o._childGraphPattern # 0}}
  IN IF T = S THEN S ELSE nested(T)

\* Pattern g was taken up once and holds its triples and filters expanded.
expandedOnce(g) ==
  /\ visits[g] = 1
  /\ patterns[g]._whereClauseTriples =
       expandTriples(patterns0[g]._whereClauseTriples, 1, mapOf(queries0[1]._prefixes)).list
  /\ patterns[g]._filters =
       expandFilters(patterns0[g]._filters, 1, mapOf(queries0[1]._prefixes)).list

\* C24: expandPrefixes comes to an end on every tree of patterns, and when
\* it returns it has expanded the triples and the filters of every pattern
\* of the tree exactly once: of the root and of every pattern below it
\* under OPTIONAL, UNION and TRANS_PATH operations.
C24_EveryPatternOnce ==
  /\ <>(epc \in {"done", "raised"})
  /\ [](epc = "done" => \A g \in nested({queries0[1]._rootGraphPattern}) : expandedOnce(g))

-----------------------------------------------------------------------------
(* A second expansion changes nothing: C25 *)

NextTwice ==
  \/ NextPrefixes
  \/ EPCallAgain /\ UNCHANGED <<cmpVars, vocabVars, tpVars, bindVars, expandVars, aliasVars, idVars, nullVars, rangeVars>>

SpecTwice == InitPrefixes /\ [][NextTwice]_vars

\* The second call of expandPrefixes has returned.
secondDone == epc = "done" /\ visits[queries[1]._rootGraphPattern] = 2

\* No declared prefix has a name that begins with '<'.
noBracketName ==
  \A j \in DOMAIN queries[1]._prefixes :
    ~startsWith(queries[1]._prefixes[j]._prefix, Str(<<"<">>))

\* C25: when no declared prefix has a name that begins with '<', a second
\* call of expandPrefixes on the query the first call has expanded changes
\* no triple and no filter of any pattern, and no prefix list: every
\* subject, predicate, object and filter operand is as the first call left
\* it.
C25_SecondRunChangesNothing ==
  (secondDone /\ noBracketName) =>
    /\ queries = queries0
    /\ \A g \in DOMAIN patterns :
         /\ patterns[g]._whereClauseTriples = patterns0[g]._whereClauseTriples
         /\ patterns[g]._filters = patterns0[g]._filters

\* The second call has returned on a query in which the first call expanded
\* a prefix behind the marker of a typed literal.
C25_Witness ==
  /\ secondDone /\ noBracketName
  /\ \E g \in DOMAIN patterns :
       /\ visits[g] = 2 /\ patterns[g]._filters # <<>>
       /\ patterns[g]._filters[1]._lhs =
            Str(<<"\"", "5", "\"", "^", "^">>) \o substr(foafUri, 0, Len(foafUri) - 1)
              \o Str(<<"a", ">">>)

-----------------------------------------------------------------------------
(* A refused alias changes nothing: C26 *)

\* The entries of the projection and the keys of the order, by loop and
\* index; their text before parseAliases and now.
textBefore(e) == IF e[1] = "selected" THEN selected0[e[2]] ELSE orderBy0[e[2]]._key
textNow(e) == IF e[1] = "selected" THEN _selectedVariables[e[2]] ELSE _orderBy[e[2]]._key
entries ==
  {<<"selected", k>> : k \in 1..Len(selected0)} \cup {<<"order", k>> : k \in 1..Len(orderBy0)}
failing == <<lastAlias.loop, lastAlias.index>>

\* The entries with an alias parseAliases took up before entry f.
aliasesBefore(f) ==
  {e \in entries :
     /\ textBefore(e)[1] = Ord("(")
     /\ \/ e[1] = f[1] /\ e[2] < f[2]
        \/ e[1] = "selected" /\ f[1] = "order"}

\* C26: when a call of parseAlias raises, the list of aliases is as it was
\* before the call; parseAliases ends there, the list holding one alias for
\* each entry taken up before, with the text that entry had and the name it
\* has now; the refused entry and every entry behind it has the text it had
\* before, and every key of the order has the flag _desc it had.
C26_RefusedAliasChangesNothing ==
  /\ (lastAlias.made /\ lastAlias.raised) => _aliases = lastAlias.before
  /\ paRaised =>
       /\ lastAlias.made /\ lastAlias.raised
       /\ \A k \in 1..Len(_aliases) :
            \E e \in aliasesBefore(failing) :
              /\ _aliases[k]._function = substr(textBefore(e), 1, Len(textBefore(e)) - 2)
              /\ _aliases[k]._outVarName = textNow(e)
       /\ \A e \in aliasesBefore(failing) :
            \E k \in 1..Len(_aliases) : _aliases[k]._outVarName = textNow(e)
       /\ textNow(failing) = inParens(lastAlias.alias)
       /\ \A e \in entries \ aliasesBefore(failing) : textNow(e) = textBefore(e)
  /\ Len(_orderBy) = Len(orderBy0)
  /\ \A k \in 1..Len(_orderBy) : _orderBy[k]._desc = orderBy0[k]._desc

\* A descending key of the order was refused after an alias of the
\* projection had been recorded: its output variable is bound to another
\* text.
C26_Witness ==
  /\ paRaised /\ lastAlias.loop = "order"
  /\ _orderBy[lastAlias.index]._desc
  /\ Len(_aliases) = 1
  /\ _aliases[1]._outVarName = outOf(lastAlias.alias)
  /\ _aliases[1]._function # lastAlias.alias

=============================================================================
